---- MODULE Spec2Model ----
(***************************************************************************)
(* Model of the budgeting ledger (models.py), the view model that drives   *)
(* it (viewmodels.py), the CSV import path (csv_importer.py), the          *)
(* transaction classifier (ai.py) with the batch that drives it, and the   *)
(* window's batch classification with its worker threads (app.py).         *)
(*                                                                         *)
(* categories, transactions: the ledger; last: the view-model call being   *)
(* handled; memory, client: the classifier's _memory and whether it has a  *)
(* client; ai: the classifier call being handled; listeners: the view      *)
(* model's _listeners; batch: a suggest_categories_for_unassigned call     *)
(* running beside the event loop, statement by statement; abort: what its  *)
(* should_abort answers; app: the window's classification state, its       *)
(* worker threads and the callbacks waiting for the event loop.            *)
(*                                                                         *)
(* Identifiers are integers: generated uuid4 ids are drawn from counters   *)
(* (a uuid is never handed out twice), CSV references come from Refs.      *)
(* None and the empty string are both falsy in every test the code makes   *)
(* on category_id / reference, and are modelled by NoCat / NoRef / NoId.   *)
(***************************************************************************)
EXTENDS Integers, Sequences, FiniteSets, TLC

VARIABLES categories, transactions, nextCatId, nextTxnId, last,
          memory, client, ai, listeners, batch, abort, app

vars == <<categories, transactions, nextCatId, nextTxnId, last, memory, client, ai,
          listeners, batch, abort, app>>

\* the ledger, and the classifier with the call it is handling
ledgerVars == <<categories, transactions, nextCatId, nextTxnId>>
classifierVars == <<memory, client, ai>>
\* a suggest_categories_for_unassigned call under way and what its
\* should_abort answers
batchVars == <<batch, abort>>

-----------------------------------------------------------------------------
(* Bounds *)

MaxCatIds == 2
MaxTxnIds == 1
MaxTxns == 2

-----------------------------------------------------------------------------
(* Values *)

NoCat == 0
NoRef == 0
NoId == 0

CatIdPool == 1..(MaxCatIds + 1)
TxnUuidPool == 1..(MaxTxnIds + 1)
Refs == {101, 102}

Names == {"Food", "food", "Rent", "Rental", "Groceries", "groceries"}
Lower ==
    [n \in Names |-> CASE n = "Rent" -> "rent"
                      [] n = "Rental" -> "rental"
                      [] n \in {"Groceries", "groceries"} -> "groceries"
                      [] OTHER -> "food"]

\* A description is the sequence of parts that " | " joins.
Descs == {<<"shop">>}
\* a reference as it reads inside a description
RefText == [r \in Refs |-> IF r = 101 THEN "101" ELSE "102"]

\* A value handed to _to_decimal: either already a Decimal or a string.
Dec(n) == [isdec |-> TRUE, s |-> "", d |-> n]
Str(t) == [isdec |-> FALSE, s |-> t, d |-> 0]

\* Decimal(str): the numerals that parse, with their values; every other
\* string raises decimal.InvalidOperation.
\* Amounts are counted in cents.
DecimalOf == [t \in {"5", "-2.50"} |-> IF t = "5" THEN 500 ELSE -250]
\* the numerals typed when adding, and when editing
NewNumerals == {Str("5"), Str("abc")}
EditNumerals == {Str("-2.50"), Str("abc")}

to_decimal_ok(value) == value.isdec \/ value.s \in DOMAIN DecimalOf
to_decimal(value) == IF value.isdec THEN value.d ELSE DecimalOf[value.s]

-----------------------------------------------------------------------------
(* Ledger helpers *)

HasCat(cats, id) == \E i \in DOMAIN cats : cats[i].category_id = id
CatIndex(cats, id) == CHOOSE i \in DOMAIN cats : cats[i].category_id = id

BudgetCategory(id, name, planned) ==
    [category_id |-> id, name |-> name, planned_amount |-> planned, actual_amount |-> 0]

Transaction(tid, description, amount, category_id, account_id, reference) ==
    [transaction_id |-> tid, description |-> description, amount |-> amount,
     category_id |-> category_id, account_id |-> account_id, reference |-> reference]

apply_transaction(category, txn) ==
    [category EXCEPT !.actual_amount = @ + txn.amount]

\* The state a method works on, and the outcome of a call: the state after
\* it, the exception raised ("none" when it returned) and the value returned.
State(cats, txns, ncid, ntid) ==
    [categories |-> cats, transactions |-> txns, nextCatId |-> ncid, nextTxnId |-> ntid]

Outcome(S, exc, ret) ==
    [categories |-> S.categories, transactions |-> S.transactions,
     nextCatId |-> S.nextCatId, nextTxnId |-> S.nextTxnId, exc |-> exc, ret |-> ret]

StateOf(o) == State(o.categories, o.transactions, o.nextCatId, o.nextTxnId)

RECURSIVE ApplyAll(_, _, _)
\* second loop of recalculate_actuals, from transaction index i on
ApplyAll(cats, txns, i) ==
    IF i > Len(txns) THEN cats
    ELSE LET txn == txns[i]
             cats2 == IF txn.category_id # NoCat /\ HasCat(cats, txn.category_id)
                      THEN [cats EXCEPT ![CatIndex(cats, txn.category_id)] =
                                apply_transaction(@, txn)]
                      ELSE cats
         IN ApplyAll(cats2, txns, i + 1)

\* (variant: the totals are not reset before the transactions are re-applied)
recalculate_actuals_noreset(cats, txns) ==
    ApplyAll(cats, txns, 1)

recalculate_actuals(cats, txns) ==
    ApplyAll([i \in DOMAIN cats |-> [cats[i] EXCEPT !.actual_amount = 0]], txns, 1)

-----------------------------------------------------------------------------
(* BudgetLedger methods (models.py) *)

\* the two KeyErrors, told apart by their message
UnknownCategory == "KeyError: Unknown category id"
UnknownTransaction == "KeyError: Unknown transaction id"

\* add_category: _to_decimal runs while the BudgetCategory is being built,
\* before the category is registered; the id is a fresh uuid4.
add_category(S, name, planned_amount) ==
    IF ~to_decimal_ok(planned_amount) THEN Outcome(S, "InvalidOperation", NoCat)
    ELSE LET category == BudgetCategory(S.nextCatId, name, to_decimal(planned_amount))
         IN Outcome([S EXCEPT !.categories = Append(@, category),
                              !.nextCatId = @ + 1],
                    "none", category.category_id)

\* (variant: the transactions of the removed category are left in place)
remove_category_orphans(S, category_id) ==
    Outcome([S EXCEPT !.categories = SelectSeq(@, LAMBDA c : c.category_id # category_id)],
            "none", NoCat)

\* (variant: the filter keeps only transactions of other categories, `if
\* txn.category_id and txn.category_id != category_id`)
remove_category_dropsUnassigned(S, category_id) ==
    Outcome([S EXCEPT !.categories = SelectSeq(@, LAMBDA c : c.category_id # category_id),
                      !.transactions = SelectSeq(@, LAMBDA t :
                          t.category_id # NoCat /\ t.category_id # category_id)],
            "none", NoCat)

remove_category(S, category_id) ==
    Outcome([S EXCEPT !.categories = SelectSeq(@, LAMBDA c : c.category_id # category_id),
                      !.transactions = SelectSeq(@, LAMBDA t : t.category_id # category_id)],
            "none", NoCat)

\* update_category: the name is assigned before the planned amount is
\* converted, so a conversion failure leaves the new name in place.
update_category(S, category_id, hasName, name, hasPlanned, planned_amount) ==
    IF ~HasCat(S.categories, category_id) THEN Outcome(S, UnknownCategory, NoCat)
    ELSE LET i == CatIndex(S.categories, category_id)
             S1 == IF hasName THEN [S EXCEPT !.categories[i].name = name] ELSE S
         IN IF ~hasPlanned THEN Outcome(S1, "none", category_id)
            ELSE IF ~to_decimal_ok(planned_amount)
                 THEN Outcome(S1, "InvalidOperation", NoCat)
                 ELSE Outcome([S1 EXCEPT !.categories[i].planned_amount =
                                             to_decimal(planned_amount)],
                              "none", category_id)

\* (variant: the new transaction is inserted at the front of the list)
record_transaction_prepends(S, description, amount, category_id, transaction_id, account_id, reference) ==
    IF category_id # NoCat /\ ~HasCat(S.categories, category_id)
    THEN Outcome(S, UnknownCategory, NoId)
    ELSE IF ~to_decimal_ok(amount) THEN Outcome(S, "InvalidOperation", NoId)
    ELSE LET fresh == transaction_id = NoId
             tid == IF fresh THEN S.nextTxnId ELSE transaction_id
             txn == Transaction(tid, description, to_decimal(amount), category_id,
                                account_id, reference)
             S1 == [S EXCEPT !.transactions = <<txn>> \o @,
                             !.nextTxnId = IF fresh THEN @ + 1 ELSE @]
             S2 == IF category_id # NoCat
                   THEN [S1 EXCEPT !.categories[CatIndex(S.categories, category_id)] =
                                       apply_transaction(@, txn)]
                   ELSE S1
         IN Outcome(S2, "none", tid)

\* (variant: only the category check that follows the append is made)
record_transaction_latecheck(S, description, amount, category_id, transaction_id, account_id, reference) ==
    IF ~to_decimal_ok(amount) THEN Outcome(S, "InvalidOperation", NoId)
    ELSE LET fresh == transaction_id = NoId
             tid == IF fresh THEN S.nextTxnId ELSE transaction_id
             txn == Transaction(tid, description, to_decimal(amount), category_id,
                                account_id, reference)
             S1 == [S EXCEPT !.transactions = Append(@, txn),
                             !.nextTxnId = IF fresh THEN @ + 1 ELSE @]
         IN IF category_id = NoCat THEN Outcome(S1, "none", tid)
            ELSE IF ~HasCat(S.categories, category_id)
                 THEN Outcome(S1, UnknownCategory, NoId)
                 ELSE Outcome([S1 EXCEPT
                                  !.categories[CatIndex(S.categories, category_id)] =
                                      apply_transaction(@, txn)],
                              "none", tid)

\* record_transaction: category check, Transaction construction (which
\* converts the amount in __post_init__), append, apply to the category.
record_transaction(S, description, amount, category_id, transaction_id, account_id, reference) ==
    IF category_id # NoCat /\ ~HasCat(S.categories, category_id)
    THEN Outcome(S, UnknownCategory, NoId)
    ELSE IF ~to_decimal_ok(amount) THEN Outcome(S, "InvalidOperation", NoId)
    ELSE LET fresh == transaction_id = NoId
             tid == IF fresh THEN S.nextTxnId ELSE transaction_id
             txn == Transaction(tid, description, to_decimal(amount), category_id,
                                account_id, reference)
             S1 == [S EXCEPT !.transactions = Append(@, txn),
                             !.nextTxnId = IF fresh THEN @ + 1 ELSE @]
             S2 == IF category_id # NoCat
                   THEN [S1 EXCEPT !.categories[CatIndex(S.categories, category_id)] =
                                       apply_transaction(@, txn)]
                   ELSE S1
         IN Outcome(S2, "none", tid)

-----------------------------------------------------------------------------
(* BudgetViewModel methods (viewmodels.py) *)

\* (variant: the totals are not recomputed after the removal)
delete_transaction_norecalc(S, transaction_id) ==
    Outcome([S EXCEPT !.transactions =
                 SelectSeq(@, LAMBDA t : t.transaction_id # transaction_id)],
            "none", NoId)

delete_transaction(S, transaction_id) ==
    LET txns == SelectSeq(S.transactions, LAMBDA t : t.transaction_id # transaction_id)
    IN Outcome([S EXCEPT !.transactions = txns,
                         !.categories = recalculate_actuals(@, txns)],
               "none", NoId)

\* (variant: no error when no transaction matched)
set_transactions_category_silent(S, transaction_ids, category_id) ==
    IF ~HasCat(S.categories, category_id) THEN Outcome(S, UnknownCategory, NoId)
    ELSE IF transaction_ids = {} THEN Outcome(S, "none", NoId)
    ELSE LET txns == [i \in DOMAIN S.transactions |->
                        IF S.transactions[i].transaction_id \in transaction_ids
                        THEN [S.transactions[i] EXCEPT !.category_id = category_id]
                        ELSE S.transactions[i]]
         IN Outcome([S EXCEPT !.transactions = txns,
                              !.categories = recalculate_actuals(@, txns)],
                    "none", NoId)

\* (variant: the moved amounts are added to the new category and the
\* totals are not recomputed)
set_transactions_category_incremental(S, transaction_ids, category_id) ==
    IF ~HasCat(S.categories, category_id) THEN Outcome(S, UnknownCategory, NoId)
    ELSE IF transaction_ids = {} THEN Outcome(S, "none", NoId)
    ELSE LET txns == [i \in DOMAIN S.transactions |->
                        IF S.transactions[i].transaction_id \in transaction_ids
                        THEN [S.transactions[i] EXCEPT !.category_id = category_id]
                        ELSE S.transactions[i]]
             moved == SelectSeq(txns, LAMBDA t : t.transaction_id \in transaction_ids)
         IN IF moved = <<>> THEN Outcome(S, UnknownTransaction, NoId)
            ELSE Outcome([S EXCEPT !.transactions = txns,
                                   !.categories = ApplyAll(@, moved, 1)],
                         "none", NoId)

set_transactions_category(S, transaction_ids, category_id) ==
    IF ~HasCat(S.categories, category_id) THEN Outcome(S, UnknownCategory, NoId)
    ELSE IF transaction_ids = {} THEN Outcome(S, "none", NoId)
    ELSE LET txns == [i \in DOMAIN S.transactions |->
                        IF S.transactions[i].transaction_id \in transaction_ids
                        THEN [S.transactions[i] EXCEPT !.category_id = category_id]
                        ELSE S.transactions[i]]
             updated == \E i \in DOMAIN S.transactions :
                            S.transactions[i].transaction_id \in transaction_ids
         IN IF ~updated THEN Outcome(S, UnknownTransaction, NoId)
            ELSE Outcome([S EXCEPT !.transactions = txns,
                                   !.categories = recalculate_actuals(@, txns)],
                         "none", NoId)

\* (variant: the category is looked up by its exact name)
accept_ai_suggestion_exactcase(S, transaction_id, category_name) ==
    LET matches == {i \in DOMAIN S.categories : S.categories[i].name = category_name}
        found == matches # {}
        first == CHOOSE i \in matches : \A j \in matches : i <= j
        added == add_category(S, category_name, Dec(0))
        S1 == IF found THEN S ELSE StateOf(added)
        category_id == IF found THEN S.categories[first].category_id ELSE added.ret
        assigned == set_transactions_category(S1, {transaction_id}, category_id)
    IN Outcome(StateOf(assigned), assigned.exc,
               IF assigned.exc = "none" /\ ~found THEN 1 ELSE 0)

\* accept_ai_suggestion: first category in dict order whose lower-cased name
\* matches, else a new category; then set_transaction_category.  ret is
\* 1 for True (created) and 0 for False.
accept_ai_suggestion(S, transaction_id, category_name) ==
    LET matches == {i \in DOMAIN S.categories :
                        Lower[S.categories[i].name] = Lower[category_name]}
        found == matches # {}
        first == CHOOSE i \in matches : \A j \in matches : i <= j
        added == add_category(S, category_name, Dec(0))
        S1 == IF found THEN S ELSE StateOf(added)
        category_id == IF found THEN S.categories[first].category_id ELSE added.ret
        assigned == set_transactions_category(S1, {transaction_id}, category_id)
    IN Outcome(StateOf(assigned), assigned.exc,
               IF assigned.exc = "none" /\ ~found THEN 1 ELSE 0)

-----------------------------------------------------------------------------
(* CSV parsing (csv_importer.py) *)

\* A CSV row, by column: IBAN/BBAN, Bedrag, Datum, Rentedatum,
\* Naam tegenpartij and Transactiereferentie (all already stripped).
Row(iban, bedrag, datum, rentedatum, naam, ref) ==
    [iban |-> iban, bedrag |-> bedrag, datum |-> datum, rentedatum |-> rentedatum,
     naam |-> naam, ref |-> ref]

\* _parse_decimal: "." dropped, "," becomes the decimal point; empty is 0;
\* anything else raises decimal.InvalidOperation.
ParseDecimalOf == [t \in {"-2,50", "1.234,56", ""} |->
                    IF t = "-2,50" THEN -250 ELSE IF t = "1.234,56" THEN 123456 ELSE 0]

\* the values datetime.strptime(value, "%Y-%m-%d") accepts
ParseableDates == {"2024-01-05"}

pick_date_ok(row) ==
    \/ row.datum # "" /\ row.datum \in ParseableDates
    \/ row.rentedatum # "" /\ row.rentedatum \in ParseableDates

pick_date(row) ==
    IF row.datum # "" /\ row.datum \in ParseableDates THEN row.datum ELSE row.rentedatum

\* _build_description: the parts that " | ".join glues, as a sequence.
build_description(row) ==
    LET parts == IF row.naam # "" THEN <<row.naam>> ELSE <<>>
        parts2 == IF row.ref # NoRef THEN Append(parts, RefText[row.ref]) ELSE parts
    IN IF parts2 # <<>> THEN parts2 ELSE <<"Transaction">>

CSVTransaction(row) ==
    [description |-> build_description(row), amount |-> ParseDecimalOf[row.bedrag],
     occurred_on |-> pick_date(row), account_id |-> row.iban, reference |-> row.ref]

RECURSIVE ReadRows(_, _, _)
\* the generator body of read_transactions_from_csv, from row i on
ReadRows(rows, i, acc) ==
    IF i > Len(rows) THEN [exc |-> "none", records |-> acc]
    ELSE IF rows[i].iban = "" THEN ReadRows(rows, i + 1, acc)
    ELSE IF rows[i].bedrag \notin DOMAIN ParseDecimalOf
         THEN [exc |-> "InvalidOperation", records |-> <<>>]
    ELSE IF ~pick_date_ok(rows[i]) THEN [exc |-> "ValueError", records |-> <<>>]
    ELSE ReadRows(rows, i + 1, Append(acc, CSVTransaction(rows[i])))

\* list(read_transactions_from_csv(path)): _get_reader tries utf-8-sig then
\* cp1252 and raises UnicodeDecodeError when neither decodes the file.
read_transactions_from_csv(file) ==
    IF file.encoding \notin {"utf-8-sig", "cp1252"}
    THEN [exc |-> "UnicodeDecodeError", records |-> <<>>]
    ELSE ReadRows(file.rows, 1, <<>>)

\* the records a file yields
Records(file) == read_transactions_from_csv(file).records

GoodDate == "2024-01-05"

CSVFiles ==
    << [encoding |-> "utf-8-sig",
        rows |-> << Row("NL01", "-2,50", GoodDate, "", "shop", 101),
                    Row("NL02", "1.234,56", "", GoodDate, "", 102) >>],
       [encoding |-> "cp1252",
        rows |-> << Row("NL01", "-2,50", GoodDate, "", "shop", 101),
                    Row("", "1.234,56", GoodDate, "", "total", NoRef),
                    Row("NL02", "", GoodDate, "", "", NoRef) >>],
       [encoding |-> "utf-8-sig",
        rows |-> << Row("NL01", "-2,50", GoodDate, "", "shop", 101),
                    Row("NL01", "-2,50", GoodDate, "", "shop", 101) >>],
       [encoding |-> "utf-8-sig",
        rows |-> << Row("NL01", "-2,50", GoodDate, "", "shop", 101),
                    Row("NL02", "1.234,56", "05-01-2024", "", "", 102) >>],
       [encoding |-> "binary",
        rows |-> << >>] >>

-----------------------------------------------------------------------------
(* BudgetViewModel.import_transactions_from_csv *)

RECURSIVE ImportLoop(_, _, _, _, _, _, _, _)
\* the for loop over csv_transactions, from record i on
ImportLoop(S, records, i, existing_refs, category_by_account, default_category_id, skip_existing, imported) ==
    IF i > Len(records) THEN Outcome(S, "none", imported)
    ELSE LET record == records[i]
         IN IF skip_existing /\ record.reference # NoRef
                 /\ record.reference \in existing_refs
            THEN ImportLoop(S, records, i + 1, existing_refs, category_by_account,
                            default_category_id, skip_existing, imported)
            ELSE LET category_id ==
                         IF record.account_id \in DOMAIN category_by_account
                         THEN category_by_account[record.account_id]
                         ELSE default_category_id
                     o == record_transaction(S, record.description, Dec(record.amount),
                                             category_id, record.reference,
                                             record.account_id, record.reference)
                 IN IF o.exc # "none" THEN Outcome(StateOf(o), o.exc, 0)
                    ELSE ImportLoop(StateOf(o), records, i + 1,
                                    IF record.reference # NoRef
                                    THEN existing_refs \cup {record.reference}
                                    ELSE existing_refs,
                                    category_by_account, default_category_id,
                                    skip_existing, imported + 1)

\* (variant: the references already in the ledger are not collected)
import_transactions_from_csv_norefs(S, file, category_by_account, default_category_id, skip_existing) ==
    LET read == read_transactions_from_csv(file)
    IN IF read.exc # "none" THEN Outcome(S, read.exc, 0)
       ELSE IF read.records = <<>> THEN Outcome(S, "none", 0)
       ELSE ImportLoop(S, read.records, 1, {}, category_by_account,
                       default_category_id, skip_existing, 0)

import_transactions_from_csv(S, file, category_by_account, default_category_id, skip_existing) ==
    LET read == read_transactions_from_csv(file)
        existing_refs ==
            IF skip_existing
            THEN {S.transactions[k].reference : k \in DOMAIN S.transactions} \ {NoRef}
            ELSE {}
    IN IF read.exc # "none" THEN Outcome(S, read.exc, 0)
       ELSE IF read.records = <<>> THEN Outcome(S, "none", 0)
       ELSE ImportLoop(S, read.records, 1, existing_refs, category_by_account,
                       default_category_id, skip_existing, 0)

-----------------------------------------------------------------------------
(* Persistence (models.py to_dict / from_dict, storage.py) *)

\* str(Decimal) as to_dict writes it: the sign, the digits before the point
\* and the two digits after it.
DecimalText(d) ==
    LET a == IF d < 0 THEN 0 - d ELSE d
    IN [neg |-> d < 0, units |-> a \div 100, cents |-> a % 100]

\* Decimal(str(value)) on a text that str(Decimal) wrote
DecimalOfText(t) ==
    (IF t.neg THEN 0 - 1 ELSE 1) * (t.units * 100 + t.cents)

category_to_dict(c) ==
    [name |-> c.name, planned_amount |-> DecimalText(c.planned_amount),
     actual_amount |-> DecimalText(c.actual_amount), category_id |-> c.category_id]

category_from_dict(payload) ==
    [category_id |-> payload.category_id, name |-> payload.name,
     planned_amount |-> DecimalOfText(payload.planned_amount),
     actual_amount |-> DecimalOfText(payload.actual_amount)]

transaction_to_dict(t) ==
    [description |-> t.description, amount |-> DecimalText(t.amount),
     category_id |-> t.category_id, transaction_id |-> t.transaction_id,
     account_id |-> t.account_id, reference |-> t.reference]

transaction_from_dict(payload) ==
    Transaction(payload.transaction_id, payload.description,
                DecimalOfText(payload.amount), payload.category_id,
                payload.account_id, payload.reference)

to_dict(S) ==
    [categories |-> [i \in DOMAIN S.categories |-> category_to_dict(S.categories[i])],
     transactions |-> [k \in DOMAIN S.transactions |->
                          transaction_to_dict(S.transactions[k])]]

RECURSIVE LoadCategories(_, _, _)
\* first loop of from_dict: ledger.categories[category.category_id] = category
LoadCategories(payload, i, cats) ==
    IF i > Len(payload) THEN cats
    ELSE LET category == category_from_dict(payload[i])
         IN LoadCategories(payload, i + 1,
                IF HasCat(cats, category.category_id)
                THEN [cats EXCEPT ![CatIndex(cats, category.category_id)] = category]
                ELSE Append(cats, category))

\* (variant: the stored totals are kept and the transactions applied to them)
from_dict_noreset(payload) ==
    LET cats == LoadCategories(payload.categories, 1, <<>>)
        txns == [k \in DOMAIN payload.transactions |->
                    transaction_from_dict(payload.transactions[k])]
    IN [categories |-> recalculate_actuals_noreset(cats, txns), transactions |-> txns]

from_dict(payload) ==
    LET cats == LoadCategories(payload.categories, 1, <<>>)
        txns == [k \in DOMAIN payload.transactions |->
                    transaction_from_dict(payload.transactions[k])]
    IN [categories |-> recalculate_actuals(cats, txns), transactions |-> txns]

\* save() followed by load(): the ledger is replaced by the one read back
\* from the file save() wrote.
save_load(S) ==
    LET ledger == from_dict(to_dict(S))
    IN Outcome([S EXCEPT !.categories = ledger.categories,
                         !.transactions = ledger.transactions], "none", 0)

-----------------------------------------------------------------------------
(* TransactionClassifier (ai.py) *)

\* The cap a classifier is constructed with (12 unless the caller passes
\* another value); 2 here, so that lists longer than the cap are in reach.
max_feedback_examples == 2

\* Confidence is counted in hundredths.
ClassificationResult(category_name, confidence) ==
    [some |-> TRUE, category_name |-> category_name, confidence |-> confidence]

\* the None that suggest_category returns for "no suggestion"
NoResult == [some |-> FALSE, category_name |-> "", confidence |-> 0]

\* str.lower() on the strings of the model (every other one is lower-case)
LowerText(t) ==
    CASE t = "Aldi" -> "aldi"
      [] t = "NL01" -> "nl01"
      [] t = "NL02" -> "nl02"
      [] t = "Food" -> "food"
      [] t = "Rental" -> "rental"
      [] t = "Groceries" -> "groceries"
      [] t = "Rent" -> "rent"
      [] t = "Housing" -> "housing"
      [] t = "Transport" -> "transport"
      [] t = "Auto & Transport" -> "auto & transport"
      [] t = "Dining" -> "dining"
      [] t = "Income" -> "income"
      [] t = "Utilities" -> "utilities"
      [] t = "Insurance" -> "insurance"
      [] t = "Healthcare" -> "healthcare"
      [] t = "Health & Fitness" -> "health & fitness"
      [] OTHER -> t

\* `a in b` on lower-cased strings of the model: the pairs of different
\* non-empty strings where the first occurs inside the second
ProperlyWithin ==
    { <<"rent", "parent">>, <<"rent", "rental">>,
      <<"transport", "auto & transport">> }

Within(a, b) == a = "" \/ a = b \/ <<a, b>> \in ProperlyWithin

\* The text fields of a transaction as the classifier reads them, each a
\* sequence of words.  The transactions of the model carry no counterparty
\* and no account_name (both None, as for a manual entry).
DescriptionWords(txn) == txn.description
AccountWords(txn) == IF txn.account_id # "" THEN <<txn.account_id>> ELSE <<>>
ReferenceWords(txn) == IF txn.reference # NoRef THEN <<RefText[txn.reference]>> ELSE <<>>

\* _normalise_transaction: description, counterparty, account_name or
\* account_id, reference joined by blanks and lower-cased; the key is the
\* sequence of its lower-cased words, <<>> for the empty string.
normalise_transaction(txn) ==
    LET words == DescriptionWords(txn) \o AccountWords(txn) \o ReferenceWords(txn)
    IN [i \in DOMAIN words |-> LowerText(words[i])]

\* _tokenise_transaction: description, counterparty, account_name and
\* reference (not account_id), lower-cased and split on non-alphanumerics.
tokenise_transaction(txn) ==
    LET words == DescriptionWords(txn) \o ReferenceWords(txn)
    IN {LowerText(words[i]) : i \in DOMAIN words}

\* the dict _memory as the set of its items, one per key (the code never
\* iterates over it, so the insertion order shows nowhere)
MemoryHas(mem, key) == \E e \in mem : e.key = key
MemoryGet(mem, key) == (CHOOSE e \in mem : e.key = key).result

\* self._memory[key] = result
MemoryPut(mem, key, result) ==
    {e \in mem : e.key # key} \cup {[key |-> key, result |-> result]}

\* examples[-self.max_feedback_examples:]
Recent(examples) ==
    IF Len(examples) <= max_feedback_examples THEN examples
    ELSE SubSeq(examples, Len(examples) - max_feedback_examples + 1, Len(examples))

RECURSIVE UpdateLoop(_, _, _)
UpdateLoop(mem, recent, i) ==
    IF i > Len(recent) THEN mem
    ELSE LET key == normalise_transaction(recent[i].txn)
         IN UpdateLoop(IF key # <<>> /\ recent[i].category_name # ""
                       THEN MemoryPut(mem, key,
                                ClassificationResult(recent[i].category_name, 99))
                       ELSE mem,
                       recent, i + 1)

RECURSIVE UpdateLoopKeeping(_, _, _)
UpdateLoopKeeping(mem, recent, i) ==
    IF i > Len(recent) THEN mem
    ELSE LET key == normalise_transaction(recent[i].txn)
         IN UpdateLoopKeeping(IF key # <<>> /\ recent[i].category_name # ""
                                   /\ ~MemoryHas(mem, key)
                              THEN MemoryPut(mem, key,
                                       ClassificationResult(recent[i].category_name, 99))
                              ELSE mem,
                              recent, i + 1)

\* (variant: a key already in memory keeps its result, as with setdefault)
update_memory_keeping(mem, examples) == UpdateLoopKeeping(mem, Recent(examples), 1)

\* (variant: the examples are recorded from the most recent one back, so
\* that of two with one key the earlier one stays)
update_memory_reversed(mem, examples) ==
    LET recent == Recent(examples)
    IN UpdateLoop(mem, [i \in DOMAIN recent |-> recent[Len(recent) + 1 - i]], 1)

update_memory(mem, examples) == UpdateLoop(mem, Recent(examples), 1)

RECURSIVE MatchLoop(_, _, _)
\* the loop of _match_from_examples over reversed(recent), from the i-th
\* example from the end on
MatchLoop(transaction, recent, i) ==
    IF i < 1 THEN NoResult
    ELSE LET example_tokens == tokenise_transaction(recent[i].txn)
         IN IF example_tokens = {} THEN MatchLoop(transaction, recent, i - 1)
            ELSE IF tokenise_transaction(transaction) \cap example_tokens # {}
                 THEN ClassificationResult(recent[i].category_name,
                          IF transaction.description = recent[i].txn.description
                          THEN 85 ELSE 70)
                 ELSE MatchLoop(transaction, recent, i - 1)

\* (variant: every example is scanned, not only the most recent ones)
match_from_examples_all(transaction, examples) ==
    IF examples = <<>> THEN NoResult
    ELSE IF tokenise_transaction(transaction) = {} THEN NoResult
    ELSE MatchLoop(transaction, examples, Len(examples))

match_from_examples(transaction, examples) ==
    IF examples = <<>> THEN NoResult
    ELSE IF tokenise_transaction(transaction) = {} THEN NoResult
    ELSE MatchLoop(transaction, Recent(examples), Len(Recent(examples)))

\* keyword_map, in the order of the dict literal
keyword_map ==
    << <<"grocery", "Groceries">>, <<"supermarket", "Groceries">>,
       <<"aldi", "Groceries">>, <<"lidl", "Groceries">>, <<"tesco", "Groceries">>,
       <<"rent", "Rent">>, <<"mortgage", "Housing">>, <<"uber", "Transport">>,
       <<"lyft", "Transport">>, <<"taxi", "Transport">>,
       <<"fuel", "Auto & Transport">>, <<"petrol", "Auto & Transport">>,
       <<"shell", "Auto & Transport">>, <<"bp", "Auto & Transport">>,
       <<"starbucks", "Dining">>, <<"coffee", "Dining">>, <<"restaurant", "Dining">>,
       <<"dining", "Dining">>, <<"salary", "Income">>, <<"payroll", "Income">>,
       <<"bonus", "Income">>, <<"electric", "Utilities">>, <<"internet", "Utilities">>,
       <<"broadband", "Utilities">>, <<"water", "Utilities">>,
       <<"insurance", "Insurance">>, <<"pharmacy", "Healthcare">>,
       <<"chemist", "Healthcare">>, <<"gym", "Health & Fitness">>,
       <<"fitness", "Health & Fitness">> >>

\* _resolve_category_name: an existing name equal to the suggestion up to
\* case, else the first existing name containing it or contained in it,
\* else the suggestion itself.
resolve_category_name(suggestion, existing_categories) ==
    LET suggestion_lower == LowerText(suggestion)
        equal == {i \in DOMAIN existing_categories :
                     LowerText(existing_categories[i]) = suggestion_lower}
        alike == {i \in DOMAIN existing_categories :
                     \/ Within(suggestion_lower, LowerText(existing_categories[i]))
                     \/ Within(LowerText(existing_categories[i]), suggestion_lower)}
    IN IF equal # {}
       THEN existing_categories[CHOOSE i \in equal : \A j \in equal : i <= j]
       ELSE IF alike # {}
            THEN existing_categories[CHOOSE i \in alike : \A j \in alike : i <= j]
            ELSE suggestion

\* `keyword in text`, text being description, counterparty and reference
\* joined by blanks and lower-cased (no keyword holds a blank)
KeywordInText(keyword, txn) ==
    LET words == DescriptionWords(txn) \o ReferenceWords(txn)
    IN \E i \in DOMAIN words : words[i] # "" /\ Within(keyword, LowerText(words[i]))

match_from_keywords(transaction, existing_categories) ==
    LET hits == {i \in DOMAIN keyword_map : KeywordInText(keyword_map[i][1], transaction)}
    IN IF DescriptionWords(transaction) \o ReferenceWords(transaction) = <<>>
       THEN NoResult
       ELSE IF hits = {} THEN NoResult
       ELSE ClassificationResult(
                resolve_category_name(
                    keyword_map[CHOOSE i \in hits : \A j \in hits : i <= j][2],
                    existing_categories),
                60)

\* What a call leaves: the memory, the exception it raised ("none" if it
\* returned), the result, the stage that produced it and whether the
\* remote model was called.
Answer(mem, exc, result, stage, called) ==
    [memory |-> mem, exc |-> exc, result |-> result, stage |-> stage,
     called |-> called]

heuristic_classification(mem, transaction, existing_categories, examples, normalised_key, called) ==
    LET similar == match_from_examples(transaction, examples)
        keyword == match_from_keywords(transaction, existing_categories)
    IN IF similar.some
       THEN Answer(IF normalised_key # <<>> THEN MemoryPut(mem, normalised_key, similar)
                   ELSE mem,
                   "none", similar, "examples", called)
       ELSE IF keyword.some
            THEN Answer(IF normalised_key # <<>>
                        THEN MemoryPut(mem, normalised_key, keyword) ELSE mem,
                        "none", keyword, "keywords", called)
            ELSE Answer(mem, "none", NoResult, "none", called)

\* What client.chat.completions.create does: it raises, or it returns a
\* response.  A response is modelled by the content of its first message
\* ("" when there is none) read as far as _parse_response reads it: whether
\* a JSON object is found, its "category" (stripped) and its "confidence"
\* in hundredths ("text" when float() rejects it).
Raises(kind) == [kind |-> kind, content |-> "", object |-> FALSE, category |-> "",
                 confidence |-> 0, numeric |-> FALSE]
Responds(content, object, category, numeric, confidence) ==
    [kind |-> "response", content |-> content, object |-> object,
     category |-> category, confidence |-> confidence, numeric |-> numeric]

\* the exceptions `except (_APIError, _OpenAIError)` catches
CaughtErrors == {"APIConnectionError", "AuthenticationError"}

\* _parse_response
parse_response(remote) ==
    IF ~remote.object THEN NoResult
    ELSE IF remote.category = "" THEN NoResult
    ELSE LET confidence == IF remote.numeric THEN remote.confidence ELSE 50
             clamped == IF confidence > 100 THEN 100
                        ELSE IF confidence < 0 THEN 0 ELSE confidence
         IN ClassificationResult(remote.category, clamped)

\* (variant: the memo is consulted before the examples are recorded)
suggest_category_stale(mem, has_client, transaction, existing_categories, categorized_examples, remote) ==
    IF existing_categories = <<>> /\ categorized_examples = <<>>
    THEN Answer(mem, "none", NoResult, "skipped", FALSE)
    ELSE LET seeded == update_memory(mem, categorized_examples)
             normalised_key == normalise_transaction(transaction)
             fallback(called) ==
                 heuristic_classification(seeded, transaction, existing_categories,
                                          categorized_examples, normalised_key, called)
             result == parse_response(remote)
         IN IF normalised_key # <<>> /\ MemoryHas(mem, normalised_key)
            THEN Answer(seeded, "none", MemoryGet(mem, normalised_key), "memo", FALSE)
            ELSE IF ~has_client THEN fallback(FALSE)
            ELSE IF remote.kind \in CaughtErrors THEN fallback(TRUE)
            ELSE IF remote.kind # "response"
                 THEN Answer(seeded, remote.kind, NoResult, "none", TRUE)
            ELSE IF remote.content = "" THEN fallback(TRUE)
            ELSE IF result.some
                 THEN Answer(IF normalised_key # <<>>
                             THEN MemoryPut(seeded, normalised_key, result) ELSE seeded,
                             "none", result, "remote", TRUE)
                 ELSE fallback(TRUE)

\* (variant: without the early return on no categories and no examples)
suggest_category_noskip(mem, has_client, transaction, existing_categories, categorized_examples, remote) ==
    IF FALSE
    THEN Answer(mem, "none", NoResult, "skipped", FALSE)
    ELSE LET seeded == update_memory(mem, categorized_examples)
             normalised_key == normalise_transaction(transaction)
             fallback(called) ==
                 heuristic_classification(seeded, transaction, existing_categories,
                                          categorized_examples, normalised_key, called)
             result == parse_response(remote)
         IN IF normalised_key # <<>> /\ MemoryHas(seeded, normalised_key)
            THEN Answer(seeded, "none", MemoryGet(seeded, normalised_key), "memo", FALSE)
            ELSE IF ~has_client THEN fallback(FALSE)
            ELSE IF remote.kind \in CaughtErrors THEN fallback(TRUE)
            ELSE IF remote.kind # "response"
                 THEN Answer(seeded, remote.kind, NoResult, "none", TRUE)
            ELSE IF remote.content = "" THEN fallback(TRUE)
            ELSE IF result.some
                 THEN Answer(IF normalised_key # <<>>
                             THEN MemoryPut(seeded, normalised_key, result) ELSE seeded,
                             "none", result, "remote", TRUE)
                 ELSE fallback(TRUE)

\* (variant: the heuristics run before the remote model, which is called
\* only when they find nothing)
suggest_category_heuristicsfirst(mem, has_client, transaction, existing_categories, categorized_examples, remote) ==
    IF existing_categories = <<>> /\ categorized_examples = <<>>
    THEN Answer(mem, "none", NoResult, "skipped", FALSE)
    ELSE LET seeded == update_memory(mem, categorized_examples)
             normalised_key == normalise_transaction(transaction)
             fallback(called) ==
                 heuristic_classification(seeded, transaction, existing_categories,
                                          categorized_examples, normalised_key, called)
             result == parse_response(remote)
         IN IF normalised_key # <<>> /\ MemoryHas(seeded, normalised_key)
            THEN Answer(seeded, "none", MemoryGet(seeded, normalised_key), "memo", FALSE)
            ELSE IF ~has_client \/ fallback(FALSE).result.some THEN fallback(FALSE)
            ELSE IF remote.kind \in CaughtErrors THEN fallback(TRUE)
            ELSE IF remote.kind # "response"
                 THEN Answer(seeded, remote.kind, NoResult, "none", TRUE)
            ELSE IF remote.content = "" THEN fallback(TRUE)
            ELSE IF result.some
                 THEN Answer(IF normalised_key # <<>>
                             THEN MemoryPut(seeded, normalised_key, result) ELSE seeded,
                             "none", result, "remote", TRUE)
                 ELSE fallback(TRUE)

\* suggest_category.  remote is what the client would do if it were called.
suggest_category(mem, has_client, transaction, existing_categories, categorized_examples, remote) ==
    IF existing_categories = <<>> /\ categorized_examples = <<>>
    THEN Answer(mem, "none", NoResult, "skipped", FALSE)
    ELSE LET seeded == update_memory(mem, categorized_examples)
             normalised_key == normalise_transaction(transaction)
             fallback(called) ==
                 heuristic_classification(seeded, transaction, existing_categories,
                                          categorized_examples, normalised_key, called)
             result == parse_response(remote)
         IN IF normalised_key # <<>> /\ MemoryHas(seeded, normalised_key)
            THEN Answer(seeded, "none", MemoryGet(seeded, normalised_key), "memo", FALSE)
            ELSE IF ~has_client THEN fallback(FALSE)
            ELSE IF remote.kind \in CaughtErrors THEN fallback(TRUE)
            ELSE IF remote.kind # "response"
                 THEN Answer(seeded, remote.kind, NoResult, "none", TRUE)
            ELSE IF remote.content = "" THEN fallback(TRUE)
            ELSE IF result.some
                 THEN Answer(IF normalised_key # <<>>
                             THEN MemoryPut(seeded, normalised_key, result) ELSE seeded,
                             "none", result, "remote", TRUE)
                 ELSE fallback(TRUE)

\* suggestions[txn.transaction_id] = result.category_name
SuggestionPut(suggestions, transaction_id, category_name) ==
    IF \E i \in DOMAIN suggestions : suggestions[i].transaction_id = transaction_id
    THEN [i \in DOMAIN suggestions |->
             IF suggestions[i].transaction_id = transaction_id
             THEN [transaction_id |-> transaction_id, category_name |-> category_name]
             ELSE suggestions[i]]
    ELSE Append(suggestions,
                [transaction_id |-> transaction_id, category_name |-> category_name])

RECURSIVE BatchLoop(_, _, _, _, _, _, _, _)
\* the loop of suggest_categories_for_unassigned over unassigned, from the
\* i-th transaction on; remotes[i] is what the client does for the i-th.
\* n counts the transactions suggest_category has returned for.
BatchLoop(mem, has_client, unassigned, i, existing_names, categorized_examples, remotes, suggestions) ==
    IF i > Len(unassigned)
    THEN [memory |-> mem, exc |-> "none", suggestions |-> suggestions, n |-> i - 1]
    ELSE LET a == suggest_category(mem, has_client, unassigned[i], existing_names,
                                   categorized_examples, remotes[i])
         IN IF a.exc # "none"
            THEN [memory |-> a.memory, exc |-> a.exc, suggestions |-> <<>>, n |-> i - 1]
            ELSE BatchLoop(a.memory, has_client, unassigned, i + 1, existing_names,
                           categorized_examples, remotes,
                           IF a.result.some
                           THEN SuggestionPut(suggestions, unassigned[i].transaction_id,
                                              a.result.category_name)
                           ELSE suggestions)

\* the transactions without a category, in ledger order
Unassigned(S) == SelectSeq(S.transactions, LAMBDA t : t.category_id = NoCat)

\* categorized_examples: the transactions with a category of the ledger,
\* each with the category's name
CategorizedExamples(S) ==
    LET labelled == SelectSeq(S.transactions, LAMBDA t :
                        t.category_id # NoCat /\ HasCat(S.categories, t.category_id))
    IN [k \in DOMAIN labelled |->
           [txn |-> labelled[k],
            category_name |-> S.categories[CatIndex(S.categories,
                                                    labelled[k].category_id)].name]]

\* suggest_categories_for_unassigned, called without should_abort
suggest_categories_for_unassigned(S, mem, has_client, remotes) ==
    LET existing_names == [i \in DOMAIN S.categories |-> S.categories[i].name]
    IN IF Unassigned(S) = <<>>
       THEN [memory |-> mem, exc |-> "none", suggestions |-> <<>>, n |-> 0]
       ELSE BatchLoop(mem, has_client, Unassigned(S), 1, existing_names,
                      CategorizedExamples(S), remotes, <<>>)

\* A suggest_categories_for_unassigned call, statement by statement: pc is
\* the statement it stands before, size the length of ledger.categories
\* when the call began, existing_names, categorized_examples and
\* unassigned its three lists, i the index of the loop, result what
\* suggest_category last returned, suggestions the dict built so far, exc
\* and ret what the call raised or returned; calls counts the
\* suggest_category calls made, meanwhile the operations the event loop
\* handled since the call began and run the calls begun so far.
Batch(pc) ==
    [pc |-> pc, size |-> 0, existing_names |-> <<>>, categorized_examples |-> <<>>,
     unassigned |-> <<>>, i |-> 0, result |-> NoResult, suggestions |-> <<>>,
     exc |-> "none", ret |-> <<>>, calls |-> 0, meanwhile |-> 0, run |-> 0]

NoBatch == Batch("idle")

\* the call returns value
Returns(b, value) == [b EXCEPT !.pc = "done", !.ret = value]

\* the rest of the loop body once suggest_category returned b.result: the
\* in-flight result is stored and the loop goes on, taking no notice of the
\* signal
should_abort_again_unchecked(b, aborting) ==
    LET suggestions ==
            IF b.result.some
            THEN SuggestionPut(b.suggestions, b.unassigned[b.i].transaction_id,
                               b.result.category_name)
            ELSE b.suggestions
    IN IF b.i = Len(b.unassigned)
       THEN Returns([b EXCEPT !.suggestions = suggestions], suggestions)
       ELSE [b EXCEPT !.pc = "should_abort", !.i = @ + 1,
                      !.suggestions = suggestions]

\* the check after suggest_category returned b.result, then the rest of
\* the loop body
should_abort_again(b, aborting) ==
    LET suggestions ==
            IF b.result.some
            THEN SuggestionPut(b.suggestions, b.unassigned[b.i].transaction_id,
                               b.result.category_name)
            ELSE b.suggestions
    IN IF aborting THEN Returns(b, b.suggestions)
       ELSE IF b.i = Len(b.unassigned)
            THEN Returns([b EXCEPT !.suggestions = suggestions], suggestions)
            ELSE [b EXCEPT !.pc = "should_abort", !.i = @ + 1,
                           !.suggestions = suggestions]

\* the call reading the names and the examples from the ledger anew for
\* every transaction
batch_step_live(b, S, mem, has_client, aborting, remote, raced) ==
    CASE b.pc = "call" ->
            \* `if should_abort and should_abort(): return {}`
            [batch |-> IF aborting THEN Returns(b, <<>>)
                       ELSE [b EXCEPT !.pc = "existing_names",
                                      !.size = Len(S.categories)],
             memory |-> mem]
      [] b.pc = "existing_names" ->
            [batch |-> IF raced /\ Len(S.categories) # b.size
                       THEN [b EXCEPT !.pc = "done", !.exc = "RuntimeError"]
                       ELSE [b EXCEPT !.pc = "categorized_examples",
                                      !.existing_names =
                                          [k \in DOMAIN S.categories |->
                                              S.categories[k].name]],
             memory |-> mem]
      [] b.pc = "categorized_examples" ->
            [batch |-> [b EXCEPT !.pc = "unassigned",
                                 !.categorized_examples = CategorizedExamples(S)],
             memory |-> mem]
      [] b.pc = "unassigned" ->
            [batch |-> IF Unassigned(S) = <<>> THEN Returns(b, <<>>)
                       ELSE [b EXCEPT !.pc = "should_abort", !.i = 1,
                                      !.unassigned = Unassigned(S)],
             memory |-> mem]
      [] b.pc = "should_abort" ->
            \* the check at the head of the loop body
            [batch |-> IF aborting THEN Returns(b, b.suggestions)
                       ELSE [b EXCEPT !.pc = "suggest_category"],
             memory |-> mem]
      [] b.pc = "suggest_category" ->
            LET a == suggest_category(mem, has_client, b.unassigned[b.i],
                                      [k \in DOMAIN S.categories |->
                                          S.categories[k].name],
                                      CategorizedExamples(S), remote)
            IN [batch |-> IF a.exc # "none"
                          THEN [b EXCEPT !.pc = "done", !.exc = a.exc,
                                         !.calls = @ + 1]
                          ELSE [b EXCEPT !.pc = "should_abort_again",
                                         !.result = a.result, !.calls = @ + 1],
                memory |-> a.memory]
      [] b.pc = "should_abort_again" ->
            [batch |-> should_abort_again(b, aborting), memory |-> mem]

\* What one statement of the call makes of the call b and the classifier's
\* memory, S being the ledger as it is then, aborting what should_abort
\* answers then and remote what the client does if it is called; raced
\* says whether a change of size of ledger.categories, if there was one
\* since the call began, hit the iteration over it.
batch_step(b, S, mem, has_client, aborting, remote, raced) ==
    CASE b.pc = "call" ->
            \* `if should_abort and should_abort(): return {}`
            [batch |-> IF aborting THEN Returns(b, <<>>)
                       ELSE [b EXCEPT !.pc = "existing_names",
                                      !.size = Len(S.categories)],
             memory |-> mem]
      [] b.pc = "existing_names" ->
            [batch |-> IF raced /\ Len(S.categories) # b.size
                       THEN [b EXCEPT !.pc = "done", !.exc = "RuntimeError"]
                       ELSE [b EXCEPT !.pc = "categorized_examples",
                                      !.existing_names =
                                          [k \in DOMAIN S.categories |->
                                              S.categories[k].name]],
             memory |-> mem]
      [] b.pc = "categorized_examples" ->
            [batch |-> [b EXCEPT !.pc = "unassigned",
                                 !.categorized_examples = CategorizedExamples(S)],
             memory |-> mem]
      [] b.pc = "unassigned" ->
            [batch |-> IF Unassigned(S) = <<>> THEN Returns(b, <<>>)
                       ELSE [b EXCEPT !.pc = "should_abort", !.i = 1,
                                      !.unassigned = Unassigned(S)],
             memory |-> mem]
      [] b.pc = "should_abort" ->
            \* the check at the head of the loop body
            [batch |-> IF aborting THEN Returns(b, b.suggestions)
                       ELSE [b EXCEPT !.pc = "suggest_category"],
             memory |-> mem]
      [] b.pc = "suggest_category" ->
            LET a == suggest_category(mem, has_client, b.unassigned[b.i],
                                      b.existing_names, b.categorized_examples, remote)
            IN [batch |-> IF a.exc # "none"
                          THEN [b EXCEPT !.pc = "done", !.exc = a.exc,
                                         !.calls = @ + 1]
                          ELSE [b EXCEPT !.pc = "should_abort_again",
                                         !.result = a.result, !.calls = @ + 1],
                memory |-> a.memory]
      [] b.pc = "should_abort_again" ->
            [batch |-> should_abort_again(b, aborting), memory |-> mem]

-----------------------------------------------------------------------------
(* The window's batch classification (app.py) *)

\* None where a thread or an event is expected
NoThread == 0

\* A thread launched by _launch_ai_worker, numbered as its stop_event is:
\* the suggest_categories_for_unassigned call it makes, the dict
\* `collected`, whether its stop_event is set, and whether the thread is
\* alive.  Suggestions are kept by transaction id and category name.
Worker ==
    [batch |-> Batch("call"), collected |-> {}, stop_event_set |-> FALSE,
     alive |-> TRUE]

\* The window: ai_active, ai_suggestions, _ai_worker_thread and
\* _ai_stop_event (the number of the worker, NoThread for None),
\* _ai_refresh_pending, _suspend_ai_refresh; workers: the threads launched
\* so far; queue: the callbacks handed to after(0, ...) and not yet run;
\* joining: the thread the event loop is waiting for in thread.join.
NoApp ==
    [ai_active |-> FALSE, ai_suggestions |-> {}, ai_worker_thread |-> NoThread,
     ai_stop_event |-> NoThread, ai_refresh_pending |-> FALSE,
     suspend_ai_refresh |-> FALSE, workers |-> <<>>, queue |-> <<>>,
     joining |-> NoThread]

Suggestion(transaction_id, category_name) ==
    [transaction_id |-> transaction_id, category_name |-> category_name]

\* ai_suggestions.pop(transaction_id, None)
SuggestionsPop(suggestions, transaction_id) ==
    {e \in suggestions : e.transaction_id # transaction_id}

\* ai_suggestions[transaction_id] = suggestion
SuggestionsSet(suggestions, transaction_id, category_name) ==
    SuggestionsPop(suggestions, transaction_id)
        \cup {Suggestion(transaction_id, category_name)}

\* thread.is_alive()
is_alive(a, w) == w # NoThread /\ a.workers[w].alive

\* _transaction_is_unassigned: the first transaction with the id decides
transaction_is_unassigned(S, transaction_id) ==
    LET found == {i \in DOMAIN S.transactions :
                     S.transactions[i].transaction_id = transaction_id}
    IN /\ found # {}
       /\ S.transactions[CHOOSE i \in found : \A j \in found : i <= j].category_id
              = NoCat

\* (variant: nothing is pruned)
prune_ai_suggestions_none(a, S) == a

\* _prune_ai_suggestions
prune_ai_suggestions(a, S) ==
    LET valid_unassigned ==
            {S.transactions[i].transaction_id : i \in
                {j \in DOMAIN S.transactions :
                    /\ S.transactions[j].transaction_id # NoId
                    /\ S.transactions[j].category_id = NoCat}}
    IN [a EXCEPT !.ai_suggestions =
                     {e \in @ : e.transaction_id \in valid_unassigned}]

\* _launch_ai_worker
launch_ai_worker(a) ==
    IF ~a.ai_active \/ ~a.ai_refresh_pending THEN a
    ELSE [a EXCEPT !.ai_stop_event = Len(a.workers) + 1,
                   !.ai_refresh_pending = FALSE,
                   !.workers = Append(@, Worker),
                   !.ai_worker_thread = Len(a.workers) + 1]

\* _request_ai_refresh
request_ai_refresh(a) ==
    IF ~a.ai_active THEN a
    ELSE LET pending == [a EXCEPT !.ai_refresh_pending = TRUE]
         IN IF ~is_alive(pending, pending.ai_worker_thread)
            THEN launch_ai_worker(pending)
            ELSE pending

\* _on_data_changed, as far as the batch is concerned
on_data_changed(a, S) ==
    LET pruned == prune_ai_suggestions(a, S)
        refreshed == IF pruned.ai_active /\ ~pruned.suspend_ai_refresh
                     THEN request_ai_refresh(pruned)
                     ELSE pruned
    IN [refreshed EXCEPT !.suspend_ai_refresh = FALSE]

\* _start_ai_classification
start_ai_classification(a) ==
    IF a.ai_active THEN a
    ELSE request_ai_refresh([a EXCEPT !.ai_active = TRUE, !.ai_suggestions = {}])

\* _stop_ai_classification up to thread.join(timeout=1.0)
stop_ai_classification(a) ==
    LET stopped == [a EXCEPT !.ai_active = FALSE]
        signalled == IF stopped.ai_stop_event # NoThread
                     THEN [stopped EXCEPT
                              !.workers[stopped.ai_stop_event].stop_event_set = TRUE]
                     ELSE stopped
    IN IF is_alive(signalled, signalled.ai_worker_thread)
       THEN [signalled EXCEPT !.joining = signalled.ai_worker_thread]
       ELSE signalled

\* _stop_ai_classification from the return of join on
stop_ai_classification_joined(a, S) ==
    on_data_changed([a EXCEPT !.joining = NoThread,
                              !.ai_worker_thread = NoThread,
                              !.ai_stop_event = NoThread,
                              !.ai_refresh_pending = FALSE], S)

\* _on_partial_ai_suggestion
on_partial_ai_suggestion(a, S, transaction_id, category_name) ==
    IF ~a.ai_active THEN a
    ELSE IF ~transaction_is_unassigned(S, transaction_id)
         THEN [a EXCEPT !.ai_suggestions = SuggestionsPop(@, transaction_id)]
         ELSE [a EXCEPT !.ai_suggestions =
                            SuggestionsSet(@, transaction_id, category_name)]

\* _on_ai_worker_finished
on_ai_worker_finished(a, S, suggestions, stop_event) ==
    LET filtered == {e \in suggestions :
                        transaction_is_unassigned(S, e.transaction_id)}
        shown == IF a.ai_stop_event = stop_event /\ a.ai_active
                 THEN on_data_changed([a EXCEPT !.ai_suggestions = filtered,
                                                !.suspend_ai_refresh = TRUE], S)
                 ELSE a
    IN IF shown.ai_stop_event = stop_event
       THEN launch_ai_worker([shown EXCEPT !.ai_worker_thread = NoThread,
                                           !.ai_stop_event = NoThread])
       ELSE shown

\* should_abort of the worker w
should_abort(a, w) == a.workers[w].stop_event_set \/ ~a.ai_active

\* the callbacks a worker hands to after(0, ...), each with the stop_event
\* of the worker whose closure it is
PartialCallback(w, transaction_id, category_name) ==
    [kind |-> "partial", stop_event |-> w, transaction_id |-> transaction_id,
     category_name |-> category_name, suggestions |-> {}]
FinishedCallback(w, suggestions) ==
    [kind |-> "finished", stop_event |-> w, transaction_id |-> NoId,
     category_name |-> "", suggestions |-> suggestions]

\* handle_suggestion of the worker w
handle_suggestion(a, w, transaction_id, category_name) ==
    [a EXCEPT !.workers[w].collected =
                  SuggestionsSet(@, transaction_id, category_name),
              !.queue = Append(@, PartialCallback(w, transaction_id, category_name))]

\* The call worker w makes: suggest_categories_for_unassigned is called
\* with logger, should_abort and on_suggestion, and takes logger and
\* should_abort only: the call raises TypeError before its first statement.
worker_call(b) == [b EXCEPT !.pc = "done", !.exc = "TypeError"]

\* The worker once its call returned or raised: an exception leaves
\* suggestions empty; then should_abort decides what is handed to
\* _on_ai_worker_finished, and the thread ends.
worker_finish(a, w) ==
    LET b == a.workers[w].batch
        suggestions == IF b.exc # "none" THEN {}
                       ELSE {Suggestion(b.ret[i].transaction_id, b.ret[i].category_name) :
                                i \in DOMAIN b.ret}
        collected == a.workers[w].collected
        final_results == IF should_abort(a, w) THEN collected
                         ELSE IF suggestions # {} THEN suggestions ELSE collected
    IN [a EXCEPT !.workers[w].alive = FALSE,
                 !.queue = Append(@, FinishedCallback(w, final_results))]

\* the callback cb run by the event loop
run_callback(a, S, cb) ==
    IF cb.kind = "partial"
    THEN on_partial_ai_suggestion(a, S, cb.transaction_id, cb.category_name)
    ELSE on_ai_worker_finished(a, S, cb.suggestions, cb.stop_event)

-----------------------------------------------------------------------------
(* The operations as steps of the state machine *)

\* arguments the steps draw from
TxnIdPool == TxnUuidPool \cup Refs
\* id collections: empty, one id, or an id together with one never issued
NeverIssued == MaxTxnIds + 1
IdSets == {{}} \cup {{t} : t \in TxnIdPool} \cup {{t, NeverIssued} : t \in TxnIdPool}
Mappings == {<<>>, [a \in {"NL02"} |-> MaxCatIds + 1]}
Defaults == {NoCat, 1}
NewNames == {"Food", "Rent"}
EditNames == {"Rent"}
SuggestedNames == {"food", "Rent"}

Cur == State(categories, transactions, nextCatId, nextTxnId)

\* The call the event loop is handling: its name and arguments, and once
\* it is over the exception it raised ("none" if it returned), the value it
\* returned and the number of transactions it added, removed or moved to
\* another category.  op = "idle" between two calls.
Call(op) ==
    [op |-> op, cid |-> NoCat, tids |-> {}, hasName |-> FALSE, name |-> "",
     hasValue |-> FALSE, value |-> Str(""), file |-> 0, skip |-> FALSE,
     exc |-> "none", ret |-> 0, n |-> 0, notified |-> <<>>]

Idle == Call("idle")

Touched(old, new) ==
    IF Len(new) # Len(old)
    THEN IF Len(new) > Len(old) THEN Len(new) - Len(old) ELSE Len(old) - Len(new)
    ELSE Cardinality({i \in DOMAIN old : old[i].category_id # new[i].category_id})

\* (variant: the listeners are called last registered first)
notify_reversed(registered, S) ==
    [i \in DOMAIN registered |->
        [listener |-> registered[Len(registered) + 1 - i],
         categories |-> S.categories, transactions |-> S.transactions]]

\* _notify: `for listener in self._listeners: listener(self.ledger)`, as
\* the sequence of the calls made, each with the ledger the listener is
\* handed.  A listener reads the ledger; it neither changes it nor raises.
notify(registered, S) ==
    [i \in DOMAIN registered |->
        [listener |-> registered[i],
         categories |-> S.categories, transactions |-> S.transactions]]

\* Whether the call reaches self._notify(): add_category and
\* add_transaction after the ledger call returned, delete_category,
\* delete_transaction and load always, set_transactions_category unless it
\* raised or returned early on an empty id list, accept_ai_suggestion
\* through set_transaction_category, the import if it imported a row.
\* BudgetLedger.update_category has no view-model method and tells no one.
Notifies(call, o) ==
    CASE call.op = "add_category" -> o.exc = "none"
      [] call.op = "remove_category" -> TRUE
      [] call.op = "record_transaction" -> o.exc = "none"
      [] call.op = "delete_transaction" -> TRUE
      [] call.op = "set_transactions_category" -> o.exc = "none" /\ call.tids # {}
      [] call.op = "accept_ai_suggestion" -> o.exc = "none"
      [] call.op = "import_transactions_from_csv" -> o.exc = "none" /\ o.ret > 0
      [] call.op = "save_load" -> TRUE
      [] OTHER -> FALSE

\* What the call `call` with outcome o makes of the ledger, and its record.
Effect(o, call) ==
    /\ categories' = o.categories
    /\ transactions' = o.transactions
    /\ nextCatId' = o.nextCatId
    /\ nextTxnId' = o.nextTxnId
    /\ last' = [call EXCEPT !.exc = o.exc, !.ret = o.ret,
                            !.n = Touched(transactions, o.transactions),
                            !.notified = IF Notifies(call, o)
                                         THEN notify(listeners, StateOf(o))
                                         ELSE <<>>]

\* The step that is the call `call` with outcome o.
Commit(o, call) ==
    /\ Effect(o, call)
    /\ UNCHANGED <<classifierVars, listeners, batchVars, app>>

\* The classifier call being handled: its name and arguments (context is
\* the index in AiContexts of the categories and examples), and once it is over the exception
\* it raised, the result, the stage that gave it, whether the remote model
\* was called, and for the batch the suggestions and the number of
\* transactions classified.
AiCall(op) ==
    [op |-> op, txn |-> Transaction(NoId, <<>>, 0, NoCat, "", NoRef),
     context |-> 0, remotes |-> <<>>,
     exc |-> "none", result |-> NoResult, stage |-> "none", called |-> FALSE,
     suggestions |-> <<>>, n |-> 0]

AiIdle == AiCall("idle")

Init ==
    /\ categories = <<>>
    /\ transactions = <<>>
    /\ nextCatId = 1
    /\ nextTxnId = 1
    /\ last = Idle
    /\ memory = {}
    /\ client = FALSE
    /\ ai = AiIdle
    /\ listeners = <<>>
    /\ batch = NoBatch
    /\ abort = FALSE
    /\ app = NoApp

AddCategory ==
    /\ last = Idle
    /\ nextCatId <= MaxCatIds
    /\ \E name \in NewNames, planned \in NewNumerals :
          Commit(add_category(Cur, name, planned),
                 [Call("add_category") EXCEPT !.hasName = TRUE, !.name = name,
                                             !.hasValue = TRUE, !.value = planned])

RemoveCategory ==
    /\ last = Idle
    /\ \E cid \in CatIdPool :
           Commit(remove_category(Cur, cid), [Call("remove_category") EXCEPT !.cid = cid])

UpdateCategory ==
    /\ last = Idle
    /\ \E cid \in CatIdPool, hasName \in BOOLEAN, hasPlanned \in BOOLEAN :
           \E name \in IF hasName THEN EditNames ELSE {""},
              planned \in IF hasPlanned THEN EditNumerals ELSE {Str("")} :
               Commit(update_category(Cur, cid, hasName, name, hasPlanned, planned),
                      [Call("update_category") EXCEPT !.cid = cid,
                           !.hasName = hasName, !.name = name,
                           !.hasValue = hasPlanned, !.value = planned])

RecordTransaction ==
    /\ last = Idle
    /\ Len(transactions) < MaxTxns
    /\ nextTxnId <= MaxTxnIds
    /\ \E description \in Descs, amount \in NewNumerals, cid \in {NoCat} \cup CatIdPool :
          Commit(record_transaction(Cur, description, amount, cid, NoId, "", NoRef),
                 [Call("record_transaction") EXCEPT !.cid = cid,
                                                   !.hasValue = TRUE, !.value = amount])

DeleteTransaction ==
    /\ last = Idle
    /\ \E tid \in TxnIdPool :
           Commit(delete_transaction(Cur, tid),
                  [Call("delete_transaction") EXCEPT !.tids = {tid}])

SetTransactionsCategory ==
    /\ last = Idle
    /\ \E ids \in IdSets, cid \in CatIdPool :
           Commit(set_transactions_category(Cur, ids, cid),
                  [Call("set_transactions_category") EXCEPT !.tids = ids, !.cid = cid])

AcceptAiSuggestion ==
    /\ last = Idle
    /\ \E tid \in TxnIdPool, name \in SuggestedNames :
          LET o == accept_ai_suggestion(Cur, tid, name)
          IN /\ o.nextCatId <= MaxCatIds + 1
             /\ Commit(o, [Call("accept_ai_suggestion") EXCEPT !.tids = {tid},
                               !.hasName = TRUE, !.name = name])

ImportTransactionsFromCsv ==
    /\ last = Idle
    /\ \E f \in DOMAIN CSVFiles, m \in Mappings, d \in Defaults, skip \in BOOLEAN :
           LET o == import_transactions_from_csv(Cur, CSVFiles[f], m, d, skip)
           IN /\ Len(o.transactions) <= MaxTxns
              /\ o.nextTxnId <= MaxTxnIds + 1
              /\ Commit(o, [Call("import_transactions_from_csv") EXCEPT
                                !.file = f, !.skip = skip])

SaveLoad ==
    /\ last = Idle
    /\ Commit(save_load(Cur), Call("save_load"))

\* the handler is over and the event loop waits for the next event
Return ==
    /\ last # Idle
    /\ last' = Idle
    /\ UNCHANGED <<ledgerVars, classifierVars, listeners, batchVars, app>>

Next ==
    \/ AddCategory
    \/ RemoveCategory
    \/ UpdateCategory
    \/ RecordTransaction
    \/ DeleteTransaction
    \/ SetTransactionsCategory
    \/ AcceptAiSuggestion
    \/ ImportTransactionsFromCsv
    \/ SaveLoad
    \/ Return

Spec == Init /\ [][Next]_vars

-----------------------------------------------------------------------------
(* The view model with listeners *)

MaxListeners == 2

\* add_listener: the callback is appended to _listeners.  A callback is
\* named by the rank of its registration.
AddListener ==
    /\ last = Idle
    /\ Len(listeners) < MaxListeners
    /\ listeners' = Append(listeners, Len(listeners) + 1)
    /\ UNCHANGED <<ledgerVars, last, classifierVars, batchVars, app>>

NextListeners ==
    \/ AddListener
    \/ Next

SpecListeners == Init /\ [][NextListeners]_vars

-----------------------------------------------------------------------------
(* The classifier at work on a ledger *)

\* the transactions handed to suggest_category
AiDescriptions == {<<"Aldi">>, <<"aldi">>, <<"shop">>, <<"parent", "shop">>, <<>>}
AiTxns ==
    {Transaction(1, d, 500, NoCat, "", NoRef) : d \in AiDescriptions}
        \cup {Transaction(1, <<"shop">>, 500, NoCat, "NL01", NoRef)}

Example(description, account_id, category_name) ==
    [txn |-> Transaction(2, description, 500, 1, account_id, NoRef),
     category_name |-> category_name]

\* what suggest_category is handed with a transaction: the names of the
\* existing categories and the labelled examples
Context(existing_categories, categorized_examples) ==
    [categories |-> existing_categories, examples |-> categorized_examples]

AiContexts ==
    << Context(<<>>, <<>>),
       Context(<<"Food", "Rental">>, <<>>),
       Context(<<"groceries">>, << Example(<<"aldi">>, "", "Food") >>),
       Context(<<"Food", "Rental">>,
               << Example(<<"aldi">>, "", "Food"), Example(<<"shop">>, "NL01", "Rental"),
                  Example(<<>>, "", "Food") >>),
       Context(<<"Food", "groceries">>,
               << Example(<<"Aldi">>, "", "Food"), Example(<<"aldi">>, "", "groceries") >>),
       Context(<<>>,
               << Example(<<"shop">>, "", ""),
                  Example(<<"parent", "shop">>, "", "Rental") >>) >>

\* what the client may do when it is called
RemoteOutcomes ==
    { Raises("APIConnectionError"), Raises("AuthenticationError"),
      Raises("RuntimeError"),
      Responds("", FALSE, "", FALSE, 0),
      Responds("sorry", FALSE, "", FALSE, 0),
      Responds("json", TRUE, "", TRUE, 80),
      Responds("json", TRUE, "Dining", TRUE, 170),
      Responds("json", TRUE, "Food", FALSE, 0) }

NotCalled == Raises("not called")
Remotes == IF client THEN RemoteOutcomes ELSE {NotCalled}

\* ledgers built by add_category and add_transaction
WithCategory(S, name) == StateOf(add_category(S, name, Str("5")))
Recorded(S, description, category_id, account_id) ==
    StateOf(record_transaction(S, description, Str("5"), category_id, NoId,
                               account_id, NoRef))

AiLedgers ==
    LET empty == State(<<>>, <<>>, 1, 1)
        food == WithCategory(empty, "Food")
        both == WithCategory(food, "Rental")
    IN { Recorded(food, <<"aldi">>, 1, ""),
         Recorded(Recorded(empty, <<"Aldi">>, NoCat, ""), <<"shop">>, NoCat, ""),
         Recorded(Recorded(Recorded(food, <<"aldi">>, 1, ""), <<"Aldi">>, NoCat, ""),
                  <<"parent", "shop">>, NoCat, ""),
         Recorded(Recorded(Recorded(both, <<"shop">>, 2, "NL01"), <<"shop">>, NoCat, ""),
                  <<"Aldi">>, NoCat, "") }

\* a classifier just constructed, with or without a credential in the
\* environment, next to an empty ledger
InitAI ==
    /\ categories = <<>>
    /\ transactions = <<>>
    /\ nextCatId = 1
    /\ nextTxnId = 1
    /\ last = Idle
    /\ memory = {}
    /\ client \in BOOLEAN
    /\ ai = AiIdle
    /\ listeners = <<>>
    /\ batch = NoBatch
    /\ abort = FALSE
    /\ app = NoApp

SuggestCategory ==
    /\ ai = AiIdle
    /\ \E t \in AiTxns, c \in DOMAIN AiContexts, r \in Remotes :
          LET a == suggest_category(memory, client, t, AiContexts[c].categories,
                                    AiContexts[c].examples, r)
          IN /\ memory' = a.memory
             /\ ai' = [AiCall("suggest_category") EXCEPT
                          !.txn = t, !.context = c, !.remotes = <<r>>,
                          !.exc = a.exc, !.result = a.result,
                          !.stage = a.stage, !.called = a.called]
    /\ UNCHANGED <<ledgerVars, last, client, listeners, batchVars, app>>

\* the call is over
AiReturn ==
    /\ ai # AiIdle
    /\ ai' = AiIdle
    /\ UNCHANGED <<ledgerVars, last, memory, client, listeners, batchVars, app>>

NextAI ==
    \/ SuggestCategory
    \/ AiReturn

SpecAI == InitAI /\ [][NextAI]_vars

\* the view model of a ledger with unassigned transactions, its classifier
\* just constructed
InitBatch ==
    /\ \E S \in AiLedgers :
          /\ categories = S.categories
          /\ transactions = S.transactions
          /\ nextCatId = S.nextCatId
          /\ nextTxnId = S.nextTxnId
    /\ last = Idle
    /\ memory = {}
    /\ client \in BOOLEAN
    /\ ai = AiIdle
    /\ listeners = <<>>
    /\ batch = NoBatch
    /\ abort = FALSE
    /\ app = NoApp

SuggestCategoriesForUnassigned ==
    /\ ai = AiIdle
    /\ \E remotes \in [1..Len(Unassigned(Cur)) -> Remotes] :
          LET b == suggest_categories_for_unassigned(Cur, memory, client, remotes)
          IN /\ memory' = b.memory
             /\ ai' = [AiCall("suggest_categories_for_unassigned") EXCEPT
                          !.remotes = remotes, !.exc = b.exc,
                          !.suggestions = b.suggestions, !.n = b.n]
    /\ UNCHANGED <<ledgerVars, last, client, listeners, batchVars, app>>

NextBatch ==
    \/ SuggestCategoriesForUnassigned
    \/ AiReturn

SpecBatch == InitBatch /\ [][NextBatch]_vars

-----------------------------------------------------------------------------
(* A batch running beside the event loop *)

\* the view model of a ledger, its classifier just constructed
InitWorker ==
    /\ \E S \in AiLedgers :
          /\ categories = S.categories
          /\ transactions = S.transactions
          /\ nextCatId = S.nextCatId
          /\ nextTxnId = S.nextTxnId
    /\ last = Idle
    /\ memory = {}
    /\ client \in BOOLEAN
    /\ ai = AiIdle
    /\ listeners = <<>>
    /\ batch = NoBatch
    /\ abort = FALSE
    /\ app = NoApp

MaxBatches == 1
MaxMeanwhile == 2

\* what the client does for a transaction of the batch, if there is one
BatchRemotes ==
    IF client THEN {Raises("RuntimeError"), Responds("json", TRUE, "Dining", TRUE, 170)}
    ELSE {NotCalled}

\* a thread calls suggest_categories_for_unassigned with a should_abort
BatchCall ==
    /\ batch.pc = "idle"
    /\ batch.run < MaxBatches
    /\ batch' = [Batch("call") EXCEPT !.run = batch.run + 1]
    /\ abort' = FALSE
    /\ UNCHANGED <<ledgerVars, last, classifierVars, listeners, app>>

\* the thread executes the next statement of the call
BatchStep ==
    /\ batch.pc \notin {"idle", "done"}
    /\ \E remote \in IF batch.pc = "suggest_category" THEN BatchRemotes ELSE {NotCalled},
          raced \in IF batch.pc = "existing_names" THEN BOOLEAN ELSE {FALSE} :
          LET step == batch_step(batch, Cur, memory, client, abort, remote, raced)
          IN /\ batch' = step.batch
             /\ memory' = step.memory
    /\ UNCHANGED <<ledgerVars, last, client, ai, listeners, abort, app>>

\* the call is over and its thread ends
BatchReturn ==
    /\ batch.pc = "done"
    /\ batch' = [Batch("idle") EXCEPT !.run = batch.run]
    /\ UNCHANGED <<ledgerVars, last, classifierVars, listeners, abort, app>>

\* should_abort starts to answer True
RaiseAbort ==
    /\ batch.pc \notin {"idle", "done"}
    /\ ~abort
    /\ abort' = TRUE
    /\ UNCHANGED <<ledgerVars, last, classifierVars, listeners, batch, app>>

\* The event loop meanwhile: a category is added, a transaction is added,
\* deleted or assigned, a suggestion is accepted.
AddedCategories == {"groceries"}
AcceptedNames == {"Rental"}

\* the event loop handles the call `call` with outcome o while the batch runs
Meanwhile(o, call) ==
    /\ Effect(o, call)
    /\ batch' = [batch EXCEPT !.meanwhile = @ + 1]
    /\ UNCHANGED <<classifierVars, listeners, abort, app>>

Running == last = Idle /\ batch.pc \notin {"idle", "done"} /\ batch.meanwhile < MaxMeanwhile

AddCategoryMeanwhile ==
    /\ Running
    /\ Len(categories) < MaxCatIds
    /\ \E name \in AddedCategories :
          Meanwhile(add_category(Cur, name, Str("5")),
                    [Call("add_category") EXCEPT !.hasName = TRUE, !.name = name,
                                                !.hasValue = TRUE, !.value = Str("5")])

AddTransactionMeanwhile ==
    /\ Running
    /\ Len(transactions) < MaxTxns
    /\ \E description \in Descs, k \in DOMAIN categories :
          Meanwhile(record_transaction(Cur, description, Str("5"),
                                       categories[k].category_id, NoId, "", NoRef),
                    [Call("record_transaction") EXCEPT
                         !.cid = categories[k].category_id,
                         !.hasValue = TRUE, !.value = Str("5")])

DeleteTransactionMeanwhile ==
    /\ Running
    /\ \E k \in DOMAIN transactions :
          Meanwhile(delete_transaction(Cur, transactions[k].transaction_id),
                    [Call("delete_transaction") EXCEPT
                         !.tids = {transactions[k].transaction_id}])

AssignMeanwhile ==
    /\ Running
    /\ \E k \in DOMAIN transactions, c \in DOMAIN categories :
          Meanwhile(set_transactions_category(Cur, {transactions[k].transaction_id},
                                              categories[c].category_id),
                    [Call("set_transactions_category") EXCEPT
                         !.tids = {transactions[k].transaction_id},
                         !.cid = categories[c].category_id])

AcceptMeanwhile ==
    /\ Running
    /\ \E k \in DOMAIN transactions, name \in AcceptedNames :
          LET o == accept_ai_suggestion(Cur, transactions[k].transaction_id, name)
          IN /\ Len(o.categories) <= MaxCatIds
             /\ Meanwhile(o, [Call("accept_ai_suggestion") EXCEPT
                                  !.tids = {transactions[k].transaction_id},
                                  !.hasName = TRUE, !.name = name])

NextWorker ==
    \/ BatchCall
    \/ BatchStep
    \/ BatchReturn
    \/ RaiseAbort
    \/ AddCategoryMeanwhile
    \/ AddTransactionMeanwhile
    \/ DeleteTransactionMeanwhile
    \/ AssignMeanwhile
    \/ AcceptMeanwhile
    \/ Return

SpecWorker == InitWorker /\ [][NextWorker]_vars

-----------------------------------------------------------------------------
(* The window, its event loop and its worker threads *)

MaxWorkers == 2

\* the ledgers the window is opened on
AppLedgers ==
    LET empty == State(<<>>, <<>>, 1, 1)
        food == WithCategory(empty, "Food")
    IN { Recorded(Recorded(food, <<"aldi">>, 1, ""), <<"Aldi">>, NoCat, "") }

\* the window just constructed: _on_data_changed is the view model's one
\* listener, the ledger is loaded, no classification is going on
InitApp ==
    /\ \E S \in AppLedgers :
          /\ categories = S.categories
          /\ transactions = S.transactions
          /\ nextCatId = S.nextCatId
          /\ nextTxnId = S.nextTxnId
    /\ last = Idle
    /\ memory = {}
    /\ client = FALSE
    /\ ai = AiIdle
    /\ listeners = <<1>>
    /\ batch = NoBatch
    /\ abort = FALSE
    /\ app = NoApp

\* the event loop is free to run a handler
MainIdle == app.joining = NoThread

\* no more threads than MaxWorkers are launched
Bounded(a) == Len(a.workers) <= MaxWorkers

\* the user presses Start
StartAiClassification ==
    /\ MainIdle
    /\ ~app.ai_active
    /\ Bounded(start_ai_classification(app))
    /\ app' = start_ai_classification(app)
    /\ UNCHANGED <<ledgerVars, last, classifierVars, listeners, batchVars>>

\* the user presses Stop: the handler runs up to the join, and to its end
\* if there is no live thread to wait for
StopAiClassification ==
    /\ MainIdle
    /\ app.ai_active
    /\ LET a == stop_ai_classification(app)
       IN app' = IF a.joining # NoThread THEN a
                 ELSE stop_ai_classification_joined(a, Cur)
    /\ UNCHANGED <<ledgerVars, last, classifierVars, listeners, batchVars>>

\* thread.join(timeout=1.0) returns, the thread having ended or the second
\* having passed, and the handler runs to its end
JoinReturns ==
    /\ app.joining # NoThread
    /\ app' = stop_ai_classification_joined(app, Cur)
    /\ UNCHANGED <<ledgerVars, last, classifierVars, listeners, batchVars>>

\* the event loop runs the oldest callback
RunCallback ==
    /\ MainIdle
    /\ app.queue # <<>>
    /\ LET a == run_callback([app EXCEPT !.queue = Tail(@)], Cur, Head(app.queue))
       IN /\ Bounded(a)
          /\ app' = a
    /\ UNCHANGED <<ledgerVars, last, classifierVars, listeners, batchVars>>

\* A handler calls the view model, with outcome o; the view model tells
\* its listener if the call notifies.
Handle(o, call) ==
    /\ categories' = o.categories
    /\ transactions' = o.transactions
    /\ nextCatId' = o.nextCatId
    /\ nextTxnId' = o.nextTxnId
    /\ LET a == IF Notifies(call, o) /\ listeners # <<>>
                THEN on_data_changed(app, StateOf(o))
                ELSE app
       IN /\ Bounded(a)
          /\ app' = a
    /\ UNCHANGED <<last, classifierVars, listeners, batchVars>>

\* _handle_assign_transaction_category with one row selected
HandleAssignTransactionCategory ==
    /\ MainIdle
    /\ \E k \in DOMAIN transactions, c \in DOMAIN categories :
          Handle(set_transactions_category(Cur, {transactions[k].transaction_id},
                                           categories[c].category_id),
                 [Call("set_transactions_category") EXCEPT
                      !.tids = {transactions[k].transaction_id},
                      !.cid = categories[c].category_id])

\* _handle_delete_transaction
HandleDeleteTransaction ==
    /\ MainIdle
    /\ \E k \in DOMAIN transactions :
          Handle(delete_transaction(Cur, transactions[k].transaction_id),
                 [Call("delete_transaction") EXCEPT
                      !.tids = {transactions[k].transaction_id}])

\* a click in the apply column of a row with a suggestion:
\* _handle_transaction_click and _accept_ai_suggestion
HandleTransactionClick ==
    /\ MainIdle
    /\ \E e \in app.ai_suggestions :
          LET o == accept_ai_suggestion(Cur, e.transaction_id, e.category_name)
              call == [Call("accept_ai_suggestion") EXCEPT
                          !.tids = {e.transaction_id},
                          !.hasName = TRUE, !.name = e.category_name]
              told == IF Notifies(call, o) /\ listeners # <<>>
                      THEN on_data_changed(app, StateOf(o))
                      ELSE app
              a == IF o.exc # "none" THEN told
                   ELSE [told EXCEPT !.ai_suggestions =
                                         SuggestionsPop(@, e.transaction_id)]
          IN /\ Len(o.categories) <= MaxCatIds
             /\ Bounded(a)
             /\ categories' = o.categories
             /\ transactions' = o.transactions
             /\ nextCatId' = o.nextCatId
             /\ nextTxnId' = o.nextTxnId
             /\ app' = a
    /\ UNCHANGED <<last, classifierVars, listeners, batchVars>>

\* a live worker thread takes its next step: the call, or what follows it
WorkerStep ==
    /\ \E w \in DOMAIN app.workers :
          /\ app.workers[w].alive
          /\ app' = IF app.workers[w].batch.pc # "done"
                    THEN [app EXCEPT !.workers[w].batch = worker_call(@)]
                    ELSE worker_finish(app, w)
    /\ UNCHANGED <<ledgerVars, last, classifierVars, listeners, batchVars>>

NextApp ==
    \/ StartAiClassification
    \/ StopAiClassification
    \/ JoinReturns
    \/ RunCallback
    \/ HandleAssignTransactionCategory
    \/ HandleDeleteTransaction
    \/ WorkerStep

SpecApp == InitApp /\ [][NextApp]_vars

-----------------------------------------------------------------------------
(* The window beside a view model that takes on_suggestion *)

\* Whether the call hands a result to on_suggestion at the statement b
\* stands at: once for each result it stores, when it is stored.
on_suggestion_called(b, aborting) ==
    b.pc = "should_abort_again" /\ ~aborting /\ b.result.some

\* a live worker thread takes its next step: a statement of the call, with
\* handle_suggestion called as on_suggestion, or what follows the call
WorkerStepHooked ==
    /\ \E w \in DOMAIN app.workers :
          /\ app.workers[w].alive
          /\ LET b == app.workers[w].batch
             IN IF b.pc # "done"
                THEN \E raced \in IF b.pc = "existing_names" THEN BOOLEAN ELSE {FALSE} :
                        LET step == batch_step(b, Cur, memory, client,
                                               should_abort(app, w), NotCalled, raced)
                            stepped == [app EXCEPT !.workers[w].batch = step.batch]
                        IN /\ app' = IF on_suggestion_called(b, should_abort(app, w))
                                     THEN handle_suggestion(stepped, w,
                                              b.unassigned[b.i].transaction_id,
                                              b.result.category_name)
                                     ELSE stepped
                           /\ memory' = step.memory
                ELSE /\ app' = worker_finish(app, w)
                     /\ memory' = memory
    /\ UNCHANGED <<ledgerVars, last, client, ai, listeners, batchVars>>

NextAppHooked ==
    \/ StartAiClassification
    \/ StopAiClassification
    \/ JoinReturns
    \/ RunCallback
    \/ HandleAssignTransactionCategory
    \/ HandleDeleteTransaction
    \/ HandleTransactionClick
    \/ WorkerStepHooked

SpecAppHooked == InitApp /\ [][NextAppHooked]_vars

-----------------------------------------------------------------------------
(* Vocabulary of the properties *)

RECURSIVE SumFor(_, _)
\* sum of amount over the transactions assigned to category id
SumFor(txns, id) ==
    IF txns = <<>> THEN 0
    ELSE (IF Head(txns).category_id = id THEN Head(txns).amount ELSE 0)
         + SumFor(Tail(txns), id)

RECURSIVE WithoutCategory(_, _)
\* txns without the transactions assigned to id, the rest in their order
WithoutCategory(txns, id) ==
    IF txns = <<>> THEN <<>>
    ELSE IF Head(txns).category_id = id THEN WithoutCategory(Tail(txns), id)
         ELSE <<Head(txns)>> \o WithoutCategory(Tail(txns), id)

RECURSIVE WithoutId(_, _)
\* txns without the transactions identified by tid, the rest in their order
WithoutId(txns, tid) ==
    IF txns = <<>> THEN <<>>
    ELSE IF Head(txns).transaction_id = tid THEN WithoutId(Tail(txns), tid)
         ELSE <<Head(txns)>> \o WithoutId(Tail(txns), tid)

TotalsConsistent(cats, txns) ==
    \A i \in DOMAIN cats : cats[i].actual_amount = SumFor(txns, cats[i].category_id)

LedgerUnchanged == categories' = categories /\ transactions' = transactions

NotFound == {UnknownCategory, UnknownTransaction}

Matches(ids) == {i \in DOMAIN transactions : transactions[i].transaction_id \in ids}

\* C1: after every completed ledger operation each category's actual_amount
\* equals the sum of amount over the transactions assigned to it.
C1_ActualEqualsSum == TotalsConsistent(categories, transactions)

\* C1 witness: a category with a non-zero total next to an unassigned
\* transaction, right after a reassignment.
C1_Witness ==
    /\ last.op = "set_transactions_category" /\ last.n >= 1
    /\ \E i \in DOMAIN categories : categories[i].actual_amount # 0
    /\ \E k \in DOMAIN transactions : transactions[k].category_id = NoCat

\* C2: every transaction whose category_id is set references a category
\* present in the ledger's category mapping.
C2_CategoryRefsExist ==
    \A k \in DOMAIN transactions :
        transactions[k].category_id # NoCat => HasCat(categories, transactions[k].category_id)

\* C2 witness: a category was removed together with its transactions and an
\* assigned transaction remains.
C2_Witness ==
    /\ last.op = "remove_category" /\ last.n >= 1
    /\ \E k \in DOMAIN transactions : transactions[k].category_id # NoCat

\* the categories of cats with the fields the caller sets, without totals
Budgets(cats) ==
    [i \in DOMAIN cats |-> [cats[i] EXCEPT !.actual_amount = 0]]

Returned(op) == last'.op = op /\ last'.exc = "none"

\* C3: remove_category(id) removes the category and every transaction
\* assigned to it, keeps every other transaction (unassigned ones too) in
\* order and leaves every remaining category's name, planned and actual
\* amount as they were, so the remaining totals count no removed amount.
C3_RemoveCategoryCascades ==
    [][last'.op = "remove_category" =>
          /\ last'.exc = "none"
          /\ ~HasCat(categories', last'.cid)
          /\ transactions' = WithoutCategory(transactions, last'.cid)
          /\ categories' = SelectSeq(categories, LAMBDA c : c.category_id # last'.cid)
          /\ TotalsConsistent(categories', transactions')]_vars

\* C3 witness: a removal that took transactions with it and left both a
\* category and a transaction behind.
C3_Witness ==
    /\ last.op = "remove_category" /\ last.n >= 1
    /\ categories # <<>>
    /\ transactions # <<>>

\* C4: a successful record_transaction appends exactly one transaction at
\* the end; with a category given, only that category's actual amount
\* changes, by exactly the amount; planned amounts, the other categories and
\* the earlier transactions stay as they were.
C4_RecordTransactionFrame ==
    [][Returned("record_transaction") =>
          /\ Len(transactions') = Len(transactions) + 1
          /\ SubSeq(transactions', 1, Len(transactions)) = transactions
          /\ transactions'[Len(transactions')].amount = DecimalOf[last'.value.s]
          /\ transactions'[Len(transactions')].category_id = last'.cid
          /\ DOMAIN categories' = DOMAIN categories
          /\ \A i \in DOMAIN categories :
                categories'[i] =
                    IF categories[i].category_id = last'.cid
                    THEN [categories[i] EXCEPT
                             !.actual_amount = @ + DecimalOf[last'.value.s]]
                    ELSE categories[i]]_vars

\* C4 witness: a transaction was just recorded into a category, after an
\* earlier transaction and next to another category.
C4_Witness ==
    /\ last.op = "record_transaction" /\ last.exc = "none" /\ last.n = 1
    /\ Len(transactions) >= 2
    /\ transactions[Len(transactions)].category_id # NoCat
    /\ Len(categories) >= 2

CategoryTakers == {"record_transaction", "update_category", "set_transactions_category"}

\* C5: record_transaction, update_category and set_transactions_category
\* called with a category id that is not in the ledger fail with a not-found
\* error and leave categories, transactions and totals as before the call.
C5_UnknownCategoryFailsClean ==
    [][(/\ last'.op \in CategoryTakers
        /\ last'.cid # NoCat
        /\ ~HasCat(categories, last'.cid)) =>
          last'.exc \in NotFound /\ LedgerUnchanged]_vars

\* C5 witness: record_transaction has just failed on an unknown category in
\* a ledger that holds a category and a transaction.
C5_Witness ==
    /\ last.op = "record_transaction" /\ last.exc = UnknownCategory
    /\ categories # <<>>
    /\ transactions # <<>>

NumeralTakers == {"add_category", "update_category", "record_transaction"}

\* C6: when add_category, update_category or record_transaction is given a
\* value that is not a valid decimal numeral, the call fails and no field of
\* any category or transaction has changed; update_category with a new name
\* and an invalid planned amount leaves the name unchanged.
C6_InvalidNumeralChangesNothing ==
    [][(/\ last'.op \in NumeralTakers
        /\ last'.hasValue
        /\ ~to_decimal_ok(last'.value)) =>
          last'.exc # "none" /\ LedgerUnchanged]_vars

\* C7 as stated: set_transactions_category fails with a not-found error
\* whenever the id collection matches no transaction, the empty collection
\* included, and then changes no category and no total.
C7_ZeroMatchesAlwaysFails ==
    [][(last'.op = "set_transactions_category" /\ Matches(last'.tids) = {}) =>
          last'.exc \in NotFound /\ LedgerUnchanged]_vars

\* C7 amended: a non-empty id collection that matches no transaction fails
\* with a not-found error; an empty collection with a known category
\* returns without error; in both cases no transaction's category and no
\* total changes.
C7_ZeroMatches ==
    [][(last'.op = "set_transactions_category" /\ Matches(last'.tids) = {}) =>
          /\ LedgerUnchanged
          /\ last'.tids # {} => last'.exc \in NotFound
          /\ (last'.tids = {} /\ HasCat(categories, last'.cid)) => last'.exc = "none"]_vars

\* C7 witness: the call failed on ids matching nothing, in a ledger that
\* holds a category and a transaction.
C7_Witness ==
    /\ last.op = "set_transactions_category" /\ last.exc = UnknownTransaction
    /\ last.tids # {}
    /\ categories # <<>>
    /\ transactions # <<>>

\* C8: with a known category and at least one matching id,
\* set_transactions_category raises nothing, every matched transaction ends
\* in that category, no other transaction changes, and every category's
\* total is consistent afterwards.
C8_AssignMatched ==
    [][(/\ last'.op = "set_transactions_category"
        /\ HasCat(categories, last'.cid)
        /\ Matches(last'.tids) # {}) =>
          /\ last'.exc = "none"
          /\ DOMAIN transactions' = DOMAIN transactions
          /\ \A k \in DOMAIN transactions :
                transactions'[k] =
                    IF k \in Matches(last'.tids)
                    THEN [transactions[k] EXCEPT !.category_id = last'.cid]
                    ELSE transactions[k]
          /\ Budgets(categories') = Budgets(categories)
          /\ TotalsConsistent(categories', transactions')]_vars

\* C8 witness: a call naming a transaction and an id that matches nothing
\* moved that transaction and left another one where it was, with two
\* categories in the ledger.
C8_Witness ==
    /\ last.op = "set_transactions_category" /\ last.exc = "none" /\ last.n = 1
    /\ Cardinality(last.tids) = 2
    /\ Len(transactions) >= 2
    /\ Len(categories) >= 2

\* C9: delete_transaction removes the transaction with the given id, keeps
\* the others in order and recomputes every total; with no such transaction
\* it raises nothing and categories, transactions and totals are unchanged.
C9_DeleteTransaction ==
    [][last'.op = "delete_transaction" =>
          \A tid \in last'.tids :
              /\ last'.exc = "none"
              /\ transactions' = WithoutId(transactions, tid)
              /\ Budgets(categories') = Budgets(categories)
              /\ TotalsConsistent(categories', transactions')
              /\ Matches({tid}) = {} => LedgerUnchanged]_vars

\* C9 witness: an assigned transaction was deleted and another remains.
C9_Witness ==
    /\ last.op = "delete_transaction" /\ last.n = 1
    /\ transactions # <<>>
    /\ \E i \in DOMAIN categories : categories[i].actual_amount # 0

CurNext == State(categories', transactions', nextCatId', nextTxnId')

AllReferenced(file) ==
    /\ read_transactions_from_csv(file).exc = "none"
    /\ \A i \in DOMAIN Records(file) : Records(file)[i].reference # NoRef

\* importing the file of the import that has just returned once more, with
\* the same skip_existing, returns 0 and adds nothing
SecondImportAddsNothing ==
    \A m \in Mappings, d \in Defaults :
        LET again == import_transactions_from_csv(CurNext, CSVFiles[last'.file], m, d,
                                                  last'.skip)
        IN /\ again.exc = "none"
           /\ again.ret = 0
           /\ again.transactions = transactions'
           /\ again.categories = categories'

\* C10 as stated: importing the same records twice yields the transaction
\* count of importing them once, given every row has a reference; the
\* second import returns 0 and adds nothing.
C10_ImportTwiceAnyMode ==
    [][(/\ Returned("import_transactions_from_csv")
        /\ AllReferenced(CSVFiles[last'.file])) => SecondImportAddsNothing]_vars

\* C10 amended: with skip_existing true (its default), importing the same
\* records twice yields the transaction count of importing them once, given
\* every row has a reference; the second import returns 0 and adds nothing.
C10_ImportTwice ==
    [][(/\ Returned("import_transactions_from_csv")
        /\ last'.skip
        /\ AllReferenced(CSVFiles[last'.file])) => SecondImportAddsNothing]_vars

\* C10 witness: an import with skip_existing of a file whose rows all carry
\* a reference returned 0, every reference being in the ledger already.
C10_Witness ==
    /\ last.op = "import_transactions_from_csv" /\ last.exc = "none"
    /\ last.skip /\ last.ret = 0
    /\ AllReferenced(CSVFiles[last.file])
    /\ \A i \in DOMAIN Records(CSVFiles[last.file]) :
          \E k \in DOMAIN transactions :
              transactions[k].reference = Records(CSVFiles[last.file])[i].reference

\* C11: when import_transactions_from_csv fails (undecodable file, a row
\* whose date cannot be resolved, a row whose account maps to an unknown
\* category id), no transaction of that attempt is in the ledger and the
\* prior transactions and totals are untouched, whichever row failed.
C11_ImportFailsClean ==
    [][(last'.op = "import_transactions_from_csv" /\ last'.exc # "none") =>
          LedgerUnchanged]_vars

\* C12: for every ledger built from valid operations, from_dict(to_dict(
\* ledger)) has the same categories (ids, names, planned and actual
\* amounts) and the same transactions in the same order with the same
\* fields, hence the same totals.
C12_RoundTrip ==
    [][last'.op = "save_load" =>
          /\ last'.exc = "none"
          /\ LedgerUnchanged
          /\ from_dict(to_dict(Cur)).categories = categories
          /\ from_dict(to_dict(Cur)).transactions = transactions]_vars

\* C12 witness: a ledger with two categories, a negative total and an
\* unassigned transaction next to an assigned one has just been saved and
\* loaded.
C12_Witness ==
    /\ last.op = "save_load"
    /\ Len(categories) >= 2
    /\ \E i \in DOMAIN categories : categories[i].actual_amount < 0
    /\ \E k \in DOMAIN transactions : transactions[k].category_id = NoCat
    /\ \E k \in DOMAIN transactions : transactions[k].category_id # NoCat

\* C13: in every state reachable by manual entry, CSV import (skip_existing
\* true or false) and deletion, no two transactions of the ledger share a
\* transaction identifier.
C13_UniqueTransactionIds ==
    \A i, j \in DOMAIN transactions :
        i # j => transactions[i].transaction_id # transactions[j].transaction_id

\* the categories whose name equals name case-insensitively
Named(cats, name) == {i \in DOMAIN cats : Lower[cats[i].name] = Lower[name]}

\* C20: accept_ai_suggestion for an existing transaction assigns it to an
\* existing category whose name equals the suggested name
\* case-insensitively and returns False without creating a category; when
\* there is none it creates exactly one category with that name and planned
\* amount zero, assigns the transaction to it and returns True; either way
\* the totals are consistent afterwards.
C20_AcceptSuggestion ==
    [][(last'.op = "accept_ai_suggestion" /\ Matches(last'.tids) # {}) =>
          /\ last'.exc = "none"
          /\ Len(transactions') = Len(transactions)
          /\ \A k \in DOMAIN transactions :
                /\ [transactions'[k] EXCEPT !.category_id = NoCat]
                       = [transactions[k] EXCEPT !.category_id = NoCat]
                /\ k \notin Matches(last'.tids) =>
                       transactions'[k].category_id = transactions[k].category_id
          /\ Named(categories, last'.name) # {} =>
                /\ last'.ret = 0
                /\ Budgets(categories') = Budgets(categories)
                /\ \A k \in Matches(last'.tids) :
                      \E i \in Named(categories, last'.name) :
                          transactions'[k].category_id = categories[i].category_id
          /\ Named(categories, last'.name) = {} =>
                /\ last'.ret = 1
                /\ Len(categories') = Len(categories) + 1
                /\ SubSeq(Budgets(categories'), 1, Len(categories)) = Budgets(categories)
                /\ ~HasCat(categories, categories'[Len(categories')].category_id)
                /\ categories'[Len(categories')].name = last'.name
                /\ categories'[Len(categories')].planned_amount = 0
                /\ \A k \in Matches(last'.tids) :
                      transactions'[k].category_id =
                          categories'[Len(categories')].category_id
          /\ TotalsConsistent(categories', transactions')]_vars

\* C20 witness: a suggestion spelt "food" was accepted into the existing
\* category "Food", moving a transaction out of another category.
C20_Witness ==
    /\ last.op = "accept_ai_suggestion" /\ last.exc = "none"
    /\ last.name = "food" /\ last.ret = 0 /\ last.n = 1
    /\ \E i \in DOMAIN categories :
          /\ categories[i].name = "Food"
          /\ \E k \in DOMAIN transactions :
                /\ transactions[k].transaction_id \in last.tids
                /\ transactions[k].category_id = categories[i].category_id
    /\ Len(categories) >= 2

-----------------------------------------------------------------------------
(* Vocabulary of the classifier's properties *)

\* the suggest_category call of the step, and what it was handed
Suggested == ai'.op = "suggest_category"
GivenCategories == AiContexts[ai'.context].categories
GivenExamples == AiContexts[ai'.context].examples
GivenKey == normalise_transaction(ai'.txn)

\* the examples of a list that carry a category name and the key of the
\* transaction, that key not being empty
SameKey(examples) ==
    {i \in DOMAIN examples :
        /\ GivenKey # <<>>
        /\ normalise_transaction(examples[i].txn) = GivenKey
        /\ examples[i].category_name # ""}

\* those among the last max_feedback_examples, which update_memory records
Recorded99 == SameKey(Recent(GivenExamples))

Latest(indices) == CHOOSE i \in indices : \A j \in indices : j <= i

\* the memory once the examples of the call are recorded
Seeded == update_memory(memory, GivenExamples)

MemoHit == GivenKey # <<>> /\ MemoryHas(Seeded, GivenKey)
SimilarHit == match_from_examples(ai'.txn, GivenExamples).some
KeywordHit == match_from_keywords(ai'.txn, GivenCategories).some
\* the remote model gave a usable answer
RemoteHit ==
    /\ ai'.remotes[1].kind = "response"
    /\ ai'.remotes[1].content # ""
    /\ parse_response(ai'.remotes[1]).some

\* C14 as stated: a transaction whose normalized key (not empty) is that of
\* a supplied labelled example gets that example's category, whatever its
\* keywords and wherever the example stands in the list.
C14_ExampleWinsAnywhere ==
    [][(Suggested /\ SameKey(GivenExamples) # {}) =>
          /\ ai'.exc = "none"
          /\ ai'.result.some
          /\ \E i \in SameKey(GivenExamples) :
                ai'.result.category_name = GivenExamples[i].category_name]_vars

\* C14 amended: a transaction whose non-empty normalized key is that of one
\* of the last max_feedback_examples supplied examples carrying a non-empty
\* category name gets the category of the last such example, with
\* confidence 0.99, whatever its keywords.
C14_RecentExampleWins ==
    [][(Suggested /\ Recorded99 # {}) =>
          /\ ai'.exc = "none"
          /\ ai'.stage = "memo"
          /\ ai'.result = ClassificationResult(
                 Recent(GivenExamples)[Latest(Recorded99)].category_name, 99)]_vars

\* C14 witness: the memo answered with an example's category for a
\* transaction spelt differently whose keyword leads to another category.
C14_Witness ==
    /\ ai.op = "suggest_category" /\ ai.stage = "memo"
    /\ ai.result.confidence = 99
    /\ match_from_keywords(ai.txn, AiContexts[ai.context].categories).some
    /\ match_from_keywords(ai.txn, AiContexts[ai.context].categories).category_name
           # ai.result.category_name
    /\ \A i \in DOMAIN AiContexts[ai.context].examples :
          AiContexts[ai.context].examples[i].txn.description # ai.txn.description

\* C15 as stated: whenever suggest_category answers from the memo the
\* confidence returned is 0.99, whatever calls came before.
C15_MemoIs99 ==
    [][(Suggested /\ ai'.stage = "memo") => ai'.result.confidence = 99]_vars

\* C15 amended: whenever suggest_category answers from the memo it returns
\* the result recorded under the key: confidence 0.99 when the key is that
\* of one of the last max_feedback_examples examples of the call, otherwise
\* the result an earlier call left there, with that result's confidence.
C15_MemoIsRecorded ==
    [][(Suggested /\ ai'.stage = "memo") =>
          /\ ai'.result = MemoryGet(memory', GivenKey)
          /\ Recorded99 # {} => ai'.result.confidence = 99
          /\ Recorded99 = {} =>
                /\ MemoryHas(memory, GivenKey)
                /\ ai'.result = MemoryGet(memory, GivenKey)]_vars

\* C15 witness: the memo answered with the 0.60 of a keyword match that an
\* earlier call had recorded.
C15_Witness ==
    /\ ai.op = "suggest_category" /\ ai.stage = "memo"
    /\ ai.result.confidence = 60

\* C16: after any sequence of suggest_category calls the memory holds at
\* most max_feedback_examples entries.
C16_MemoryCapped == Cardinality(memory) <= max_feedback_examples

C18_RemoteFailureAbsorbed ==
    [][ai'.op = "suggest_categories_for_unassigned" =>
          /\ ai'.exc = "none"
          /\ ai'.n = Len(Unassigned(Cur))]_vars

\* the canonical label of the first keyword of the table found in the text
FirstLabel(txn) ==
    LET hits == {i \in DOMAIN keyword_map : KeywordInText(keyword_map[i][1], txn)}
    IN keyword_map[CHOOSE i \in hits : \A j \in hits : i <= j][2]

\* no existing name equals, contains or is contained in the label
Unrelated(label, names) ==
    \A i \in DOMAIN names :
        /\ ~Within(LowerText(label), LowerText(names[i]))
        /\ ~Within(LowerText(names[i]), LowerText(label))

NothingGiven == GivenCategories = <<>> /\ GivenExamples = <<>>

\* C19 as stated: suggest_category returns no suggestion only when no stage
\* matches; a transaction whose text holds a keyword of the table gets a
\* suggestion, the canonical label verbatim, even with no categories and no
\* labelled examples.
C19_NoneOnlyWhenNothingMatches ==
    [][(Suggested /\ ai'.exc = "none") =>
          /\ ~ai'.result.some =>
                ~MemoHit /\ ~SimilarHit /\ ~KeywordHit /\ ~(ai'.called /\ RemoteHit)
          /\ KeywordHit => ai'.result.some
          /\ (KeywordHit /\ NothingGiven) =>
                ai'.result.category_name = FirstLabel(ai'.txn)]_vars

\* C19 amended: given at least one category name or labelled example,
\* suggest_category returns no suggestion only when no stage matches, and
\* a transaction whose text holds a keyword gets a suggestion, the
\* canonical label verbatim when the keyword stage answers and no existing
\* name is related to it; given neither categories nor examples it returns
\* no suggestion.
C19_NoneWhenNothingMatchesOrGiven ==
    [][(Suggested /\ ai'.exc = "none") =>
          /\ NothingGiven => ~ai'.result.some /\ memory' = memory
          /\ (~NothingGiven /\ ~ai'.result.some) =>
                ~MemoHit /\ ~SimilarHit /\ ~KeywordHit /\ ~(ai'.called /\ RemoteHit)
          /\ (~NothingGiven /\ KeywordHit) => ai'.result.some
          /\ (ai'.stage = "keywords"
                /\ Unrelated(FirstLabel(ai'.txn), GivenCategories)) =>
                ai'.result = ClassificationResult(FirstLabel(ai'.txn), 60)]_vars

\* C19 witness: the keyword stage answered "Groceries" verbatim, no
\* existing category being related to it.
C19_Witness ==
    /\ ai.op = "suggest_category" /\ ai.stage = "keywords"
    /\ ai.result.category_name = "Groceries"
    /\ AiContexts[ai.context].categories # <<>>

\* C21: a user-facing operation that fails leaves the ledger unchanged; in
\* particular accept_ai_suggestion called with a transaction id that is
\* not in the ledger and a category name that matches no existing category
\* raises a not-found error and creates no category.
C21_FailedAcceptCreatesNothing ==
    [][(/\ last'.op = "accept_ai_suggestion"
        /\ Matches(last'.tids) = {}
        /\ Named(categories, last'.name) = {}) =>
          /\ last'.exc = UnknownTransaction
          /\ LedgerUnchanged]_vars

\* the view-model operations of C22 (BudgetLedger.update_category is none)
Notifying ==
    {"add_category", "remove_category", "record_transaction", "delete_transaction",
     "set_transactions_category", "accept_ai_suggestion",
     "import_transactions_from_csv", "save_load"}

\* C22: every view-model operation that completes successfully and changes
\* the ledger calls every registered listener, in registration order, with
\* the ledger in its post-mutation state, before it returns.
C22_ListenersNotified ==
    [][(last'.op \in Notifying /\ last'.exc = "none" /\ ~LedgerUnchanged) =>
          /\ Len(last'.notified) = Len(listeners)
          /\ \A i \in DOMAIN listeners :
                /\ last'.notified[i].listener = listeners[i]
                /\ last'.notified[i].categories = categories'
                /\ last'.notified[i].transactions = transactions']_vars

\* C22 witness: an import that added a row has told two listeners.
C22_Witness ==
    /\ last.op = "import_transactions_from_csv" /\ last.exc = "none" /\ last.ret > 0
    /\ Len(listeners) = 2
    /\ Len(last.notified) = 2


\* the batch executes one of its checks of the abort signal
ChecksAbort ==
    /\ batch.pc \in {"call", "should_abort", "should_abort_again"}
    /\ batch'.pc # batch.pc

\* C23: suggest_categories_for_unassigned checks the abort signal before
\* the first transaction and between transactions. A check that finds the
\* signal raised ends the call without an exception: no further
\* suggest_category call is made, a result that was in flight is not
\* added, the suggestions collected so far are returned, and the ledger is
\* unchanged; the check before the batch starts returns the empty result
\* with no call made.
C23_AbortStopsBatch ==
    [][(ChecksAbort /\ abort) =>
          /\ batch'.pc = "done"
          /\ batch'.exc = "none"
          /\ batch'.calls = batch.calls
          /\ batch'.suggestions = batch.suggestions
          /\ batch'.ret = batch.suggestions
          /\ (batch.pc = "call" => batch'.ret = <<>> /\ batch'.calls = 0)
          /\ LedgerUnchanged]_vars

\* C23 witness: the signal was raised during the second suggest_category
\* call: the call returned the first suggestion alone, the second result
\* dropped.
C23_Witness ==
    /\ batch.pc = "done"
    /\ abort
    /\ batch.calls = 2
    /\ batch.result.some
    /\ Len(batch.ret) = 1
    /\ batch.ret[1].transaction_id # batch.unassigned[batch.i].transaction_id


\* the names of the ledger's categories, in the ledger's order
NamesOf(cats) == [k \in DOMAIN cats |-> cats[k].name]

\* statements of the batch at which the names and the examples are held
Captured == {"unassigned", "should_abort", "suggest_category", "should_abort_again"}

\* C27: no step of the batch changes the ledger's categories or
\* transactions; the names and the labelled examples are read from the
\* ledger once, before the first transaction, and stay as read; every
\* suggest_category call of the batch is given these, whatever the event
\* loop added, deleted, assigned or accepted since.
C27_BatchReadsSnapshot ==
    [][/\ (batch'.pc # batch.pc) => LedgerUnchanged
       /\ (batch.pc = "existing_names" /\ batch'.pc = "categorized_examples") =>
              batch'.existing_names = NamesOf(categories)
       /\ (batch.pc = "categorized_examples" /\ batch'.pc # batch.pc) =>
              batch'.categorized_examples = CategorizedExamples(Cur)
       /\ (batch.pc \in Captured /\ batch'.pc # "idle") =>
              /\ batch'.existing_names = batch.existing_names
              /\ batch'.categorized_examples = batch.categorized_examples
       /\ (batch.pc = "suggest_category" /\ batch'.pc # batch.pc) =>
              \E remote \in BatchRemotes :
                 LET a == suggest_category(memory, client, batch.unassigned[batch.i],
                                           batch.existing_names,
                                           batch.categorized_examples, remote)
                 IN /\ memory' = a.memory
                    /\ batch'.exc = a.exc
                    /\ a.exc = "none" => batch'.result = a.result]_vars

\* C27 witness: a suggestion was computed after the event loop had changed
\* both the categories and the labelled examples of the ledger.
C27_Witness ==
    /\ batch.pc = "should_abort_again"
    /\ batch.result.some
    /\ batch.meanwhile > 0
    /\ batch.existing_names # NamesOf(categories)
    /\ batch.categorized_examples # CategorizedExamples(Cur)


\* the call of the step got as far as the heuristics: it was not skipped,
\* the memo missed and the remote model was absent or gave nothing usable
HeuristicsRan ==
    /\ Suggested
    /\ ai'.stage # "skipped"
    /\ ~MemoHit
    /\ ai'.exc = "none"
    /\ ~(client /\ RemoteHit)

\* the most recent max_feedback_examples positions of the supplied list
Window ==
    {i \in DOMAIN GivenExamples : i > Len(GivenExamples) - max_feedback_examples}

\* the positions among them whose example shares a token with the
\* transaction
Intersecting ==
    {i \in Window : tokenise_transaction(ai'.txn)
                        \cap tokenise_transaction(GivenExamples[i].txn) # {}}

\* C28: when the memo misses and the heuristics run, the answer is that of
\* the latest example among the most recent max_feedback_examples whose
\* token set shares a token with the transaction's, with confidence 0.85
\* if the two descriptions are equal and 0.70 otherwise; if no such
\* example exists, the similar-example heuristic gives nothing.
C28_SimilarExample ==
    [][HeuristicsRan =>
          IF Intersecting # {}
          THEN LET e == GivenExamples[Latest(Intersecting)]
               IN /\ ai'.stage = "examples"
                  /\ ai'.result = ClassificationResult(e.category_name,
                                      IF ai'.txn.description = e.txn.description
                                      THEN 85 ELSE 70)
          ELSE ai'.stage # "examples"]_vars

\* C28 witness: an example outside the most recent ones shares a token with
\* the transaction, no recent one does, and the answer came from the
\* keywords.
C28_Witness ==
    /\ ai.op = "suggest_category"
    /\ ai.stage = "keywords"
    /\ Len(AiContexts[ai.context].examples) > max_feedback_examples
    /\ \E i \in DOMAIN AiContexts[ai.context].examples :
          tokenise_transaction(ai.txn)
              \cap tokenise_transaction(AiContexts[ai.context].examples[i].txn) # {}

\* C28 second witness: the descriptions are equal, the keys are not, and
\* the answer has confidence 0.85.
C28_WitnessEqual ==
    /\ ai.op = "suggest_category"
    /\ ai.stage = "examples"
    /\ ai.result.confidence = 85


\* C29 as stated: a memo answer names a category that labels an example of
\* the current call with the transaction's key, so that a label no example
\* of the call carries any more is not returned from memory.
C29_MemoNamesCurrentLabel ==
    [][(Suggested /\ ai'.stage = "memo") =>
          \E i \in SameKey(GivenExamples) :
             ai'.result.category_name = GivenExamples[i].category_name]_vars

\* C29 amended: a memo answer names the label of the latest example with
\* the transaction's key among the last max_feedback_examples of the
\* current call if there is one, and otherwise the name an earlier call
\* left in memory under that key.
C29_MemoNamesLatestOrEarlier ==
    [][(Suggested /\ ai'.stage = "memo") =>
          IF Recorded99 # {}
          THEN ai'.result.category_name =
                   Recent(GivenExamples)[Latest(Recorded99)].category_name
          ELSE /\ MemoryHas(memory, GivenKey)
               /\ ai'.result.category_name =
                      MemoryGet(memory, GivenKey).category_name]_vars

\* C29 witness: the memo answered with a name that labels no example of
\* the call, recorded at 0.99 from an example of an earlier call.
C29_Witness ==
    /\ ai.op = "suggest_category" /\ ai.stage = "memo"
    /\ ai.result.confidence = 99
    /\ \A i \in DOMAIN AiContexts[ai.context].examples :
          AiContexts[ai.context].examples[i].category_name # ai.result.category_name


\* the worker threads that are running
RunningWorkers == {w \in DOMAIN app.workers : app.workers[w].alive}

\* C24: at most one batch worker is running at any time, whatever the
\* interleaving of start, stop (its join timing out or not), refresh
\* requests and worker completion.
C24_OneWorker == Cardinality(RunningWorkers) <= 1


\* the step is the event loop running the callback at the head of the queue
RunsCallback == MainIdle /\ app.queue # <<>> /\ app'.queue = Tail(app.queue)

\* the step runs _on_ai_worker_finished for the batch launched last, with
\* classification active and no change of the ledger since its launch
BatchCompletes ==
    /\ RunsCallback
    /\ Head(app.queue).kind = "finished"
    /\ Head(app.queue).stop_event = app.ai_stop_event
    /\ app.ai_active
    /\ ~app.ai_refresh_pending

\* the suggestions a batch over the ledger produces
Classifiable ==
    LET whole == suggest_categories_for_unassigned(
                     Cur, memory, client, [i \in DOMAIN transactions |-> NotCalled])
    IN {Suggestion(whole.suggestions[i].transaction_id,
                   whole.suggestions[i].category_name) : i \in DOMAIN whole.suggestions}

\* C25: the suggestions a batch produces reach the interactive layer: when
\* the batch over a ledger with a classifiable unassigned transaction
\* completes, every suggestion it produced has been delivered and is
\* displayed.
C25_BatchDelivers ==
    [][BatchCompletes => Classifiable \subseteq app'.ai_suggestions]_vars


\* the transactions that exist and have no category
UnassignedIds ==
    {transactions[i].transaction_id :
        i \in {j \in DOMAIN transactions : transactions[j].category_id = NoCat}}

FromStoppedRun == app.workers[Head(app.queue).stop_event].stop_event_set

====
